---- MODULE Spec2Model ----
(***************************************************************************)
(* A model of the truck B-Rep kernel: the Solid constructors and           *)
(* operations of truck-topology/src/solid.rs, the closed sweep of          *)
(* truck-modeling/src/closed_sweep.rs, and the tessellation and the point  *)
(* in polygon test of truck-meshalgo/src/tessellation/triangulation.rs.    *)
(*                                                                         *)
(* Topology is modelled by value.  A vertex handle is its identity (a      *)
(* number).  An edge handle is a record [id, f, b, o]: the identity, the   *)
(* absolute front and back vertex, and the orientation bit of the handle.  *)
(* A wire is a sequence of edge handles, a face a record [id, bnd, o]      *)
(* (identity of the surface, boundary wires, orientation bit), a shell a   *)
(* sequence of faces and the boundaries of a solid a sequence of shells.   *)
(***************************************************************************)
EXTENDS Naturals, Integers, Sequences, FiniteSets, TLC

VARIABLES
    mode,    \* the scenario being run: "ctor", "ops", "cube", "sweep", "xsweep", "tess", "pip" or "mesh"
    debug,   \* cfg!(debug_assertions) of the build
    solid,   \* the Solid at hand: [some, b], b its boundaries
    pre,     \* the receiver (or argument) as it was before the last call
    op,      \* the last call and its arguments
    out,     \* what the last call returned: [tag, err, b]
    nextId,  \* the next fresh identity
    nops,    \* number of calls made on the solid since its construction
    last,    \* the call before the last one, when it was a cut_edge: [op, pre, out]
    cb,      \* the cube scenario: [pc, shell, panicked]
    sw,      \* the sweep scenario: [pc, division, self, wire, vertex, i, calls]
    sx,      \* the closed sweep of an edge, wire, face or shell: [kind, self, division, res]
    ts,      \* the tessellation at hand: its input, memos, position and result
    pip,     \* the last Polyline::include call: [called, self, c, tol, res]
    pm       \* the last trimming_tessellation: its boundary, triangulation and mesh

vars == <<mode, debug, solid, pre, op, out, nextId, nops, last, cb, sw, sx, ts, pip, pm>>

(***************************************************************************)
(* Bounds of the exploration.                                              *)
(***************************************************************************)
MaxShells == 2
MaxOps == 2
MaxDivision == 3

\* The second coordinate of a point of a polyline is in -MaxCoord..MaxCoord.
MaxCoord == 2

(***************************************************************************)
(* Handles.                                                                *)
(***************************************************************************)
Edge(id, v0, v1) == [id |-> id, f |-> v0, b |-> v1, o |-> TRUE]

inverse(e) == [e EXCEPT !.o = ~e.o]

front(e) == IF e.o THEN e.f ELSE e.b

back(e) == IF e.o THEN e.b ELSE e.f

Face(id, wires) == [id |-> id, bnd |-> wires, o |-> TRUE]

SeqRange(s) == {s[i] : i \in 1..Len(s)}

Least(S) == CHOOSE x \in S : \A y \in S : x <= y

\* Every edge occurrence of a shell, by position <<face, wire, index>>.
Occ(sh) ==
    UNION {UNION {{<<i, j, k>> : k \in 1..Len(sh[i].bnd[j])} :
                     j \in 1..Len(sh[i].bnd)} : i \in 1..Len(sh)}

OccEdge(sh, p) == sh[p[1]].bnd[p[2]][p[3]]

ShellEdgeIds(sh) == {OccEdge(sh, p).id : p \in Occ(sh)}

ShellVertices(sh) ==
    {OccEdge(sh, p).f : p \in Occ(sh)} \cup {OccEdge(sh, p).b : p \in Occ(sh)}

FaceVertices(face) ==
    UNION {{e.f, e.b} : e \in UNION {SeqRange(w) : w \in SeqRange(face.bnd)}}

(***************************************************************************)
(* Shell queries.                                                          *)
(***************************************************************************)
is_empty(sh) == Len(sh) = 0

RECURSIVE Reach(_, _)
Reach(S, sh) ==
    LET T == S \cup UNION {FaceVertices(sh[i]) :
                 i \in {j \in 1..Len(sh) : FaceVertices(sh[j]) \cap S # {}}}
    IN  IF T = S THEN S ELSE Reach(T, sh)

\* Connectivity of the vertices of the shell through its faces.
is_connected(sh) ==
    \/ ShellVertices(sh) = {}
    \/ Reach({CHOOSE v \in ShellVertices(sh) : TRUE}, sh) = ShellVertices(sh)

\* The direction in which occurrence p runs, the face's bit taken into account.
OccDir(sh, p) == (OccEdge(sh, p).o = sh[p[1]].o)

Mult(sh, id, d) ==
    Cardinality({p \in Occ(sh) : OccEdge(sh, p).id = id /\ OccDir(sh, p) = d})

shell_condition(sh) ==
    LET ids == ShellEdgeIds(sh)
        oriented == \A id \in ids : Mult(sh, id, TRUE) <= 1 /\ Mult(sh, id, FALSE) <= 1
        closed == \A id \in ids : Mult(sh, id, TRUE) = 1 /\ Mult(sh, id, FALSE) = 1
        regular == \A id \in ids : Mult(sh, id, TRUE) + Mult(sh, id, FALSE) <= 2
    IN  IF oriented /\ closed THEN "Closed"
        ELSE IF oriented THEN "Oriented"
        ELSE IF regular THEN "Regular"
        ELSE "Irregular"

\* The edges of the shell that end at vertex v.
IncidentEdges(sh, v) ==
    {OccEdge(sh, p).id : p \in {q \in Occ(sh) : v \in {OccEdge(sh, q).f, OccEdge(sh, q).b}}}

\* The face corners at v: the pairs of edges that follow each other through v
\* in some boundary wire.
Corners(sh, v) ==
    {{OccEdge(sh, p).id,
      sh[p[1]].bnd[p[2]][(p[3] % Len(sh[p[1]].bnd[p[2]])) + 1].id} :
        p \in {q \in Occ(sh) : back(OccEdge(sh, q)) = v}}

RECURSIVE LinkReach(_, _)
LinkReach(S, cs) ==
    LET T == S \cup UNION {c \in cs : c \cap S # {}}
    IN  IF T = S THEN S ELSE LinkReach(T, cs)

singular_vertices(sh) ==
    {v \in ShellVertices(sh) :
        LinkReach({CHOOSE e \in IncidentEdges(sh, v) : TRUE}, Corners(sh, v))
            # IncidentEdges(sh, v)}

(***************************************************************************)
(* The shells the constructors are tried on.  A pillow is the smallest     *)
(* closed shell: two faces on the same two edges, run in opposite          *)
(* directions.                                                             *)
(***************************************************************************)
Pillow(v0, v1, e0, e1, f0, f1) ==
    LET E0 == Edge(e0, v0, v1)
        E1 == Edge(e1, v1, v0)
    IN  << Face(f0, << <<E0, E1>> >>),
           Face(f1, << <<inverse(E1), inverse(E0)>> >>) >>

Pillow1 == Pillow(1, 2, 11, 12, 21, 22)

Pillow2 == Pillow(3, 4, 13, 14, 23, 24)

EmptyShell == <<>>

\* One face of a pillow: oriented, not closed.
OpenShell == <<Pillow1[1]>>

\* Two pillows with no common vertex in one shell: closed, not connected.
TwoPillows == Pillow1 \o Pillow2

\* Two pillows that meet in vertex 1 only: connected and closed, vertex 1 singular.
Bowtie == Pillow1 \o Pillow(1, 5, 15, 16, 25, 26)

\* One face of each of two pillows: neither connected nor closed.
OpenPair == <<Pillow1[1], Pillow2[1]>>

\* The bowtie without its last face: not closed, and vertex 1 is singular.
OpenBowtie == SubSeq(Bowtie, 1, 3)

ShellLibrary ==
    {EmptyShell, Pillow1, Pillow2, OpenShell, TwoPillows, Bowtie, OpenPair, OpenBowtie}

RECURSIVE SeqsUpTo(_, _)
SeqsUpTo(S, n) ==
    IF n = 0 THEN {<<>>}
    ELSE LET R == SeqsUpTo(S, n - 1)
         IN  R \cup {Append(r, x) : r \in {q \in R : Len(q) = n - 1}, x \in S}

BoundaryLists == SeqsUpTo(ShellLibrary, MaxShells)

(***************************************************************************)
(* cube() of solid.rs: 8 vertices, 12 edges, 6 faces.                      *)
(***************************************************************************)
CubeEdge ==
    << Edge(100, 0, 1), Edge(101, 1, 2), Edge(102, 2, 3), Edge(103, 3, 0),
       Edge(104, 0, 4), Edge(105, 1, 5), Edge(106, 2, 6), Edge(107, 3, 7),
       Edge(108, 4, 5), Edge(109, 5, 6), Edge(110, 6, 7), Edge(111, 7, 4) >>

\* edge[n] of the source, whose array starts at 0.
edge(n) == CubeEdge[n + 1]

wire0 == <<edge(0), edge(1), edge(2), edge(3)>>

wire1 == <<edge(4), edge(8), inverse(edge(5)), inverse(edge(0))>>

wire2 == <<edge(5), edge(9), inverse(edge(6)), inverse(edge(1))>>

wire3 == <<edge(6), edge(10), inverse(edge(7)), inverse(edge(2))>>

wire4 == <<edge(7), edge(11), inverse(edge(4)), inverse(edge(3))>>

\* wire5 run in the direction of the edges.
wire5_NotInverted == <<edge(8), edge(9), edge(10), edge(11)>>

wire5 == <<inverse(edge(11)), inverse(edge(10)), inverse(edge(9)), inverse(edge(8))>>

face0 == Face(120, <<wire0>>)

face1 == Face(121, <<wire1>>)

face2 == Face(122, <<wire2>>)

face3 == Face(123, <<wire3>>)

face4 == Face(124, <<wire4>>)

face5 == Face(125, <<wire5>>)

\* The faces in the order in which cube() pushes them.
CubePushes == <<face0, face5, face1, face2, face3, face4>>

(***************************************************************************)
(* Solid: the constructors.  A result is [tag, err, b]: tag "Ok" with the  *)
(* boundaries b of the solid, tag "Err" with the error, or tag "Panic".    *)
(***************************************************************************)
NoBnd == <<>>

Ok(b) == [tag |-> "Ok", err |-> "", b |-> b]

Err(e) == [tag |-> "Err", err |-> e, b |-> NoBnd]

Panic(e) == [tag |-> "Panic", err |-> e, b |-> NoBnd]

new_unchecked(boundaries) == Ok(boundaries)

\* ShellError with the closedness test moved before the connectivity test.
ShellError_ClosedFirst(shell) ==
    IF is_empty(shell) THEN "EmptyShell"
    ELSE IF shell_condition(shell) # "Closed" THEN "NotClosedShell"
    ELSE IF ~is_connected(shell) THEN "NotConnected"
    ELSE IF singular_vertices(shell) # {} THEN "NotManifold"
    ELSE ""

\* The error of one shell of the loop of try_new, "" when it passes.
ShellError(shell) ==
    IF is_empty(shell) THEN "EmptyShell"
    ELSE IF ~is_connected(shell) THEN "NotConnected"
    ELSE IF shell_condition(shell) # "Closed" THEN "NotClosedShell"
    ELSE IF singular_vertices(shell) # {} THEN "NotManifold"
    ELSE ""

RECURSIVE TryNewFrom(_, _)
TryNewFrom(boundaries, i) ==
    IF i > Len(boundaries) THEN new_unchecked(boundaries)
    ELSE IF ShellError(boundaries[i]) # "" THEN Err(ShellError(boundaries[i]))
    ELSE TryNewFrom(boundaries, i + 1)

\* try_new that takes a solid without boundary for an error.
try_new_RejectsEmpty(boundaries) ==
    IF boundaries = <<>> THEN Err("EmptyShell") ELSE TryNewFrom(boundaries, 1)

try_new(boundaries) == TryNewFrom(boundaries, 1)

remove_try(r) == IF r.tag = "Ok" THEN r ELSE Panic(r.err)

new(boundaries) == remove_try(try_new(boundaries))

\* debug_new that validates in every build.
debug_new_AlwaysChecks(boundaries, dbg) == new(boundaries)

debug_new(boundaries, dbg) ==
    IF dbg THEN new(boundaries) ELSE new_unchecked(boundaries)

(***************************************************************************)
(* Shell: mapping.  Every vertex, edge and face of the shell gets a fresh  *)
(* identity, the same one at every occurrence (the identity -> handle      *)
(* table of one call).  base is the first identity the call allocates.     *)
(***************************************************************************)
Rank(S, x) == Cardinality({y \in S : y < x})

ShellFaceIds(sh) == {sh[i].id : i \in 1..Len(sh)}

ShellIdCount(sh) ==
    Cardinality(ShellVertices(sh)) + Cardinality(ShellEdgeIds(sh))
        + Cardinality(ShellFaceIds(sh))

Shell_mapped(sh, base) ==
    LET V == ShellVertices(sh)
        E == ShellEdgeIds(sh)
        F == ShellFaceIds(sh)
        nv(v) == base + Rank(V, v)
        ne(e) == [id |-> base + Cardinality(V) + Rank(E, e.id),
                  f |-> nv(e.f), b |-> nv(e.b), o |-> e.o]
    IN  [i \in 1..Len(sh) |->
            [id |-> base + Cardinality(V) + Cardinality(E) + Rank(F, sh[i].id),
             o |-> sh[i].o,
             bnd |-> [j \in 1..Len(sh[i].bnd) |->
                        [k \in 1..Len(sh[i].bnd[j]) |-> ne(sh[i].bnd[j][k])]]]]

\* failP, failC, failS: the vertices, edges and faces on whose point, curve
\* and surface the callback returns None.
Shell_try_mapped(sh, base, failP, failC, failS) ==
    IF \/ ShellVertices(sh) \cap failP # {}
       \/ ShellEdgeIds(sh) \cap failC # {}
       \/ ShellFaceIds(sh) \cap failS # {}
    THEN [some |-> FALSE, sh |-> <<>>]
    ELSE [some |-> TRUE, sh |-> Shell_mapped(sh, base)]

(***************************************************************************)
(* Shell: cut_edge and remove_vertex_by_concat_edges.  Each returns        *)
(* [res, sh, used]: the boolean, the shell afterwards and the number of    *)
(* identities allocated.                                                   *)
(***************************************************************************)
RECURSIVE CutWire(_, _, _, _)
CutWire(w, eid, E0, E1) ==
    IF w = <<>> THEN <<>>
    ELSE (IF Head(w).id # eid THEN <<Head(w)>>
          ELSE IF Head(w).o THEN <<E0, E1>>
          ELSE <<inverse(E1), inverse(E0)>>) \o CutWire(Tail(w), eid, E0, E1)

\* cutOk: whether the curve can be cut at the point of the vertex.
Shell_cut_edge(sh, eid, v, base, cutOk) ==
    IF eid \notin ShellEdgeIds(sh) THEN [res |-> TRUE, sh |-> sh, used |-> 0]
    ELSE IF ~cutOk THEN [res |-> FALSE, sh |-> sh, used |-> 0]
    ELSE LET e == OccEdge(sh, CHOOSE p \in Occ(sh) : OccEdge(sh, p).id = eid)
             E0 == Edge(base, e.f, v)
             E1 == Edge(base + 1, v, e.b)
         IN  [res |-> TRUE,
              sh |-> [i \in 1..Len(sh) |->
                        [sh[i] EXCEPT !.bnd =
                            [j \in 1..Len(sh[i].bnd) |->
                                CutWire(sh[i].bnd[j], eid, E0, E1)]]],
              used |-> 2]

RECURSIVE ConcatWire(_, _, _, _)
ConcatWire(w, vid, first, New) ==
    IF w = <<>> THEN <<>>
    ELSE IF Len(w) >= 2 /\ back(w[1]) = vid
         THEN (IF w[1].id = first.id THEN <<New>> ELSE <<inverse(New)>>)
                  \o ConcatWire(Tail(Tail(w)), vid, first, New)
         ELSE <<Head(w)>> \o ConcatWire(Tail(w), vid, first, New)

\* The wire turned so that vid is not where it starts.
Turned(w, vid) ==
    IF Len(w) >= 2 /\ front(w[1]) = vid THEN Tail(w) \o <<Head(w)>> ELSE w

\* concatOk: whether the two curves can be concatenated.
Shell_remove_vertex_by_concat_edges(sh, vid, base, concatOk) ==
    IF \/ Cardinality(IncidentEdges(sh, vid)) # 2
       \/ \E p \in Occ(sh) : OccEdge(sh, p).f = vid /\ OccEdge(sh, p).b = vid
       \/ ~concatOk
    THEN [res |-> FALSE, sh |-> sh, used |-> 0]
    ELSE LET p == CHOOSE q \in Occ(sh) : back(OccEdge(sh, q)) = vid
             w == sh[p[1]].bnd[p[2]]
             first == w[p[3]]
             second == w[(p[3] % Len(w)) + 1]
             New == Edge(base, front(first), back(second))
         IN  [res |-> TRUE,
              sh |-> [i \in 1..Len(sh) |->
                        [sh[i] EXCEPT !.bnd =
                            [j \in 1..Len(sh[i].bnd) |->
                                ConcatWire(Turned(sh[i].bnd[j], vid), vid, first, New)]]],
              used |-> 1]

(***************************************************************************)
(* Solid: mapped and try_mapped.  Each boundary shell is mapped by its own *)
(* call, in order.  The result is [tag, err, b, used].                     *)
(***************************************************************************)
RECURSIVE MapShells(_, _, _)
MapShells(b, i, base) ==
    IF i > Len(b) THEN <<>>
    ELSE <<Shell_mapped(b[i], base)>> \o MapShells(b, i + 1, base + ShellIdCount(b[i]))

RECURSIVE SumIdCount(_, _)
SumIdCount(b, n) == IF n = 0 THEN 0 ELSE SumIdCount(b, n - 1) + ShellIdCount(b[n])

mapped(b, base, dbg) ==
    LET r == debug_new(MapShells(b, 1, base), dbg)
    IN  [tag |-> r.tag, err |-> r.err, b |-> r.b, used |-> SumIdCount(b, Len(b))]

\* collect::<Option<Vec<_>>>(): the shells are mapped in order up to the first None.
\* The identities of the copies that a None discards are not counted: nothing
\* holds them.
RECURSIVE TryMapShells(_, _, _, _, _, _)
TryMapShells(b, i, base, failP, failC, failS) ==
    IF i > Len(b) THEN [some |-> TRUE, bs |-> <<>>, n |-> Len(b)]
    ELSE LET r == Shell_try_mapped(b[i], base, failP, failC, failS)
         IN  IF ~r.some THEN [some |-> FALSE, bs |-> <<>>, n |-> i]
             ELSE LET rest == TryMapShells(b, i + 1, base + ShellIdCount(b[i]),
                                           failP, failC, failS)
                  IN  [some |-> rest.some,
                       bs |-> IF rest.some THEN <<r.sh>> \o rest.bs ELSE <<>>,
                       n |-> rest.n]

\* try_mapped that leaves out the shells that could not be mapped.
RECURSIVE MapShellsThatMap(_, _, _, _, _, _)
MapShellsThatMap(b, i, base, failP, failC, failS) ==
    IF i > Len(b) THEN <<>>
    ELSE LET r == Shell_try_mapped(b[i], base, failP, failC, failS)
         IN  (IF r.some THEN <<r.sh>> ELSE <<>>)
                 \o MapShellsThatMap(b, i + 1, base + ShellIdCount(b[i]),
                                      failP, failC, failS)

try_mapped_Partial(b, base, dbg, failP, failC, failS) ==
    LET r == debug_new(MapShellsThatMap(b, 1, base, failP, failC, failS), dbg)
    IN  [tag |-> IF r.tag = "Ok" THEN "Some" ELSE r.tag, err |-> r.err,
         b |-> r.b, used |-> SumIdCount(b, Len(b))]

try_mapped(b, base, dbg, failP, failC, failS) ==
    LET m == TryMapShells(b, 1, base, failP, failC, failS)
        r == debug_new(m.bs, dbg)
    IN  IF ~m.some
        THEN [tag |-> "None", err |-> "", b |-> NoBnd, used |-> 0]
        ELSE [tag |-> IF r.tag = "Ok" THEN "Some" ELSE r.tag, err |-> r.err,
              b |-> r.b, used |-> SumIdCount(b, m.n)]

(***************************************************************************)
(* Solid: cut_edge and remove_vertex_by_concat_edges.  iter_mut().all()    *)
(* calls the shells in order and stops at the first that returns false;    *)
(* a debug build then builds Solid::new of a clone of the boundaries.      *)
(* failAt is the shell (0: none) whose curve operation fails.  The result  *)
(* is [tag, err, b, used]: tag "true", "false" or "Panic", b the           *)
(* boundaries of self afterwards.                                          *)
(***************************************************************************)
\* The loop over the shells without the early exit of all().
RECURSIVE CutAll_NoShortCircuit(_, _, _, _, _, _)
CutAll_NoShortCircuit(b, i, eid, v, base, failAt) ==
    IF i > Len(b) THEN [res |-> TRUE, b |-> b, used |-> 0]
    ELSE LET r == Shell_cut_edge(b[i], eid, v, base, i # failAt)
             rest == CutAll_NoShortCircuit([b EXCEPT ![i] = r.sh], i + 1, eid, v,
                                           base + r.used, failAt)
         IN  [res |-> r.res /\ rest.res, b |-> rest.b, used |-> rest.used + r.used]

RECURSIVE CutAll(_, _, _, _, _, _)
CutAll(b, i, eid, v, base, failAt) ==
    IF i > Len(b) THEN [res |-> TRUE, b |-> b, used |-> 0]
    ELSE LET r == Shell_cut_edge(b[i], eid, v, base, i # failAt)
             b1 == [b EXCEPT ![i] = r.sh]
         IN  IF ~r.res THEN [res |-> FALSE, b |-> b1, used |-> r.used]
             ELSE LET rest == CutAll(b1, i + 1, eid, v, base + r.used, failAt)
                  IN  [rest EXCEPT !.used = @ + r.used]

RECURSIVE ConcatAll(_, _, _, _, _)
ConcatAll(b, i, vid, base, failAt) ==
    IF i > Len(b) THEN [res |-> TRUE, b |-> b, used |-> 0]
    ELSE LET r == Shell_remove_vertex_by_concat_edges(b[i], vid, base, i # failAt)
             b1 == [b EXCEPT ![i] = r.sh]
         IN  IF ~r.res THEN [res |-> FALSE, b |-> b1, used |-> r.used]
             ELSE LET rest == ConcatAll(b1, i + 1, vid, base + r.used, failAt)
                  IN  [rest EXCEPT !.used = @ + r.used]

\* The tail of both methods without the debug check.
DebugCheckThen_NoCheck(a, dbg) ==
    [tag |-> IF a.res THEN "true" ELSE "false", err |-> "", b |-> a.b, used |-> a.used]

\* The tail of both methods: the debug check, then res.
DebugCheckThen(a, dbg) ==
    LET chk == IF dbg THEN new(a.b) ELSE Ok(a.b)
    IN  IF chk.tag = "Panic"
        THEN [tag |-> "Panic", err |-> chk.err, b |-> a.b, used |-> a.used]
        ELSE [tag |-> IF a.res THEN "true" ELSE "false", err |-> "",
              b |-> a.b, used |-> a.used]

cut_edge(b, eid, v, base, failAt, dbg) ==
    DebugCheckThen(CutAll(b, 1, eid, v, base, failAt), dbg)

remove_vertex_by_concat_edges(b, vid, base, failAt, dbg) ==
    DebugCheckThen(ConcatAll(b, 1, vid, base, failAt), dbg)

(***************************************************************************)
(* Vertex::closed_sweep of closed_sweep.rs.  A vertex of the sweep carries *)
(* its point as the number of times point_mapping was applied to the point *)
(* of the swept vertex; the curve of an edge is the pair of points that    *)
(* connect_points was given.                                               *)
(***************************************************************************)
Vertex_mapped(v, id) == [id |-> id, pt |-> v.pt + 1]

connect_vertices(v0, v1, id) ==
    [id |-> id, f |-> v0, b |-> v1, o |-> TRUE, c |-> <<v0.pt, v1.pt>>]

SweptVertex == [id |-> 1, pt |-> 0]

\* The range 1..=division.
InRange_Inclusive(i, division) == i <= division

\* for _ in 1..division: whether the range still yields a value at i.
InRange(i, division) == i < division

\* One turn of the loop body: [wire, vertex, used].
SweepBody(wire, vertex, base) ==
    LET new_vertex == Vertex_mapped(vertex, base)
    IN  [wire |-> Append(wire, connect_vertices(vertex, new_vertex, base + 1)),
         vertex |-> new_vertex,
         used |-> 2]

\* The statement after the loop.
SweepLast(wire, vertex, self, base) ==
    Append(wire, connect_vertices(vertex, self, base))

(***************************************************************************)
(* Closed sweep of an edge and of a wire (closed_sweep.rs).  Here a vertex *)
(* is its identity.  calls counts the calls of mapped, each of which       *)
(* applies the mapping callbacks; used counts the identities allocated.    *)
(***************************************************************************)
WireVertices(w) == UNION {{w[k].f, w[k].b} : k \in 1..Len(w)}

WireEdgeIds(w) == {w[k].id : k \in 1..Len(w)}

WireIdCount(w) == Cardinality(WireVertices(w)) + Cardinality(WireEdgeIds(w))

\* A copy of the wire with fresh vertices and edges, shared as in the wire.
Wire_mapped(w, base) ==
    LET V == WireVertices(w)
        E == WireEdgeIds(w)
    IN  [k \in 1..Len(w) |->
            [id |-> base + Cardinality(V) + Rank(E, w[k].id),
             f |-> base + Rank(V, w[k].f),
             b |-> base + Rank(V, w[k].b),
             o |-> w[k].o]]

Edge_mapped(e, base) == Wire_mapped(<<e>>, base)[1]

\* The face between edge0 and edge1: its two side edges are new.
connect_edges(e0, e1, base) ==
    LET e2 == Edge(base, front(e0), front(e1))
        e3 == Edge(base + 1, back(e0), back(e1))
    IN  Face(base + 2, << <<e0, e3, inverse(e1), inverse(e2)>> >>)

\* The faces between the edges of w0 and those of w1, one an edge; the
\* side edge over a vertex of w0 is made once and shared by the faces on
\* both sides of it.
connect_wires(w0, w1, base) ==
    LET V == WireVertices(w0)
        Partner(v) ==
            LET k == CHOOSE j \in 1..Len(w0) : v \in {w0[j].f, w0[j].b}
            IN  IF front(w0[k]) = v THEN front(w1[k]) ELSE back(w1[k])
        Side(v) == Edge(base + Rank(V, v), v, Partner(v))
    IN  [k \in 1..Len(w0) |->
            Face(base + Cardinality(V) + k - 1,
                 << <<w0[k], Side(back(w0[k])),
                      inverse(w1[k]), inverse(Side(front(w0[k])))>> >>)]

ConnectWiresIdCount(w0) == Cardinality(WireVertices(w0)) + Len(w0)

\* Edge::closed_sweep.  The state of the loop is [shell, edge, base, calls].
EdgeSweepBody(st) ==
    LET new_edge == Edge_mapped(st.edge, st.base)
        base1 == st.base + WireIdCount(<<st.edge>>)
    IN  [shell |-> Append(st.shell, connect_edges(st.edge, new_edge, base1)),
         edge |-> new_edge,
         base |-> base1 + 3,
         calls |-> st.calls + 1]

RECURSIVE EdgeSweepFor(_, _, _)
EdgeSweepFor(st, i, division) ==
    IF InRange(i, division) THEN EdgeSweepFor(EdgeSweepBody(st), i + 1, division)
    ELSE st

\* The last face connected to a fresh copy of the edge instead of the swept edge.
EdgeSweepLast_FreshCopy(shell, e, self, base) ==
    Append(shell, connect_edges(e, Edge_mapped(e, base + 3), base))

\* The statement after the loop.
EdgeSweepLast(shell, e, self, base) ==
    Append(shell, connect_edges(e, self, base))

Edge_closed_sweep(self, division, base) ==
    LET st == EdgeSweepFor([shell |-> <<>>, edge |-> self, base |-> base, calls |-> 0],
                           1, division)
    IN  [shell |-> EdgeSweepLast(st.shell, st.edge, self, st.base),
         used |-> st.base + 3 - base,
         calls |-> st.calls]

\* The loop body that keeps only the first face of each step.
WireSweepBody_PushFirst(st) ==
    LET new_wire == Wire_mapped(st.wire, st.base)
        base1 == st.base + WireIdCount(st.wire)
        fs == connect_wires(st.wire, new_wire, base1)
    IN  [shell |-> st.shell \o (IF fs = <<>> THEN <<>> ELSE <<Head(fs)>>),
         wire |-> new_wire,
         base |-> base1 + ConnectWiresIdCount(st.wire),
         calls |-> st.calls + 1]

\* Wire::closed_sweep.  The state of the loop is [shell, wire, base, calls].
WireSweepBody(st) ==
    LET new_wire == Wire_mapped(st.wire, st.base)
        base1 == st.base + WireIdCount(st.wire)
    IN  [shell |-> st.shell \o connect_wires(st.wire, new_wire, base1),
         wire |-> new_wire,
         base |-> base1 + ConnectWiresIdCount(st.wire),
         calls |-> st.calls + 1]

RECURSIVE WireSweepFor(_, _, _)
WireSweepFor(st, i, division) ==
    IF InRange(i, division) THEN WireSweepFor(WireSweepBody(st), i + 1, division)
    ELSE st

\* The statement after the loop.
WireSweepLast(shell, wire, self, base) ==
    shell \o connect_wires(wire, self, base)

\* The sweep of a wire whose loop counts from 0.
Wire_closed_sweep_FromZero(self, division, base) ==
    LET st == WireSweepFor([shell |-> <<>>, wire |-> self, base |-> base, calls |-> 0],
                           0, division)
    IN  [shell |-> WireSweepLast(st.shell, st.wire, self, st.base),
         used |-> st.base + ConnectWiresIdCount(st.wire) - base,
         calls |-> st.calls]

Wire_closed_sweep(self, division, base) ==
    LET st == WireSweepFor([shell |-> <<>>, wire |-> self, base |-> base, calls |-> 0],
                           1, division)
    IN  [shell |-> WireSweepLast(st.shell, st.wire, self, st.base),
         used |-> st.base + ConnectWiresIdCount(st.wire) - base,
         calls |-> st.calls]

(***************************************************************************)
(* Closed sweep of a face and of a shell (closed_sweep.rs).                *)
(***************************************************************************)
invert(face) == [face EXCEPT !.o = ~face.o]

\* The face sweep that never inverts the swept faces.
SweptBoundary_NeverInverted(face, shell) == shell

\* The closure of the map of Face::closed_sweep, after the sweep of the wire.
SweptBoundary(face, shell) ==
    IF ~face.o THEN [k \in 1..Len(shell) |-> invert(shell[k])] ELSE shell

\* The wires swept one after the other: [bs, base, calls].
RECURSIVE SweepWires(_, _, _, _)
SweepWires(wires, j, division, base) ==
    IF j > Len(wires) THEN [bs |-> <<>>, base |-> base, calls |-> 0]
    ELSE LET r == Wire_closed_sweep(wires[j], division, base)
             rest == SweepWires(wires, j + 1, division, base + r.used)
         IN  [bs |-> <<r.shell>> \o rest.bs, base |-> rest.base,
              calls |-> r.calls + rest.calls]

\* The face sweep that trusts the swept boundaries in every build.
Face_closed_sweep_Unchecked(face, division, base, dbg) ==
    LET m == SweepWires(face.bnd, 1, division, base)
        boundaries == [j \in 1..Len(m.bs) |-> SweptBoundary(face, m.bs[j])]
        r == new_unchecked(boundaries)
    IN  [tag |-> r.tag, err |-> r.err, b |-> r.b, arg |-> boundaries,
         used |-> m.base - base, calls |-> m.calls]

Face_closed_sweep(face, division, base, dbg) ==
    LET m == SweepWires(face.bnd, 1, division, base)
        boundaries == [j \in 1..Len(m.bs) |-> SweptBoundary(face, m.bs[j])]
        r == debug_new(boundaries, dbg)
    IN  [tag |-> r.tag, err |-> r.err, b |-> r.b, arg |-> boundaries,
         used |-> m.base - base, calls |-> m.calls]

FaceEdgeIds(face) == UNION {WireEdgeIds(face.bnd[j]) : j \in 1..Len(face.bnd)}

\* The faces of the shell joined to those of S by a chain of shared edges.
RECURSIVE EdgeReach(_, _)
EdgeReach(S, sh) ==
    LET T == S \cup {i \in 1..Len(sh) :
                        \E j \in S : FaceEdgeIds(sh[i]) \cap FaceEdgeIds(sh[j]) # {}}
    IN  IF T = S THEN S ELSE EdgeReach(T, sh)

\* The faces of sh at the positions of S, in the order of the shell.
RECURSIVE Faces(_, _, _)
Faces(sh, S, i) ==
    IF i > Len(sh) THEN <<>>
    ELSE (IF i \in S THEN <<sh[i]>> ELSE <<>>) \o Faces(sh, S, i + 1)

RECURSIVE ComponentsOf(_, _)
ComponentsOf(sh, rest) ==
    IF rest = {} THEN <<>>
    ELSE LET S == EdgeReach({Least(rest)}, sh)
         IN  <<Faces(sh, S, 1)>> \o ComponentsOf(sh, rest \ S)

\* The components in the order in which their first faces appear.
connected_components(sh) == ComponentsOf(sh, 1..Len(sh))

RECURSIVE Flat(_)
Flat(ss) == IF ss = <<>> THEN <<>> ELSE Head(ss) \o Flat(Tail(ss))

\* The edges of the shell that lie on one face only, as the faces run them.
FreeEdges(sh) ==
    LET free(e) == Mult(sh, e.id, TRUE) + Mult(sh, e.id, FALSE) = 1
        run(i) == [j \in 1..Len(sh[i].bnd) |->
                     [k \in 1..Len(sh[i].bnd[j]) |->
                        IF sh[i].o THEN sh[i].bnd[j][k] ELSE inverse(sh[i].bnd[j][k])]]
    IN  SelectSeq(Flat([i \in 1..Len(sh) |-> Flat(run(i))]), free)

\* The wire that starts with w, continued along es until it closes or ends.
RECURSIVE Follow(_, _)
Follow(w, es) ==
    LET next == {k \in 1..Len(es) : front(es[k]) = back(w[Len(w)])}
    IN  IF back(w[Len(w)]) = front(w[1]) \/ next = {} THEN [wire |-> w, rest |-> es]
        ELSE CHOOSE r \in
                {Follow(Append(w, es[k]), SubSeq(es, 1, k - 1) \o SubSeq(es, k + 1, Len(es))) :
                    k \in {Least(next)}} : TRUE

RECURSIVE WiresOf(_)
WiresOf(es) ==
    IF es = <<>> THEN <<>>
    ELSE CHOOSE ws \in
            {<<r.wire>> \o WiresOf(r.rest) : r \in {Follow(<<Head(es)>>, Tail(es))}} : TRUE

extract_boundaries(sh) ==
    CHOOSE ws \in {WiresOf(es) : es \in {FreeEdges(sh)}} : TRUE

\* The components swept in the reverse order.
RECURSIVE SweepComponents_Reversed(_, _, _, _)
SweepComponents_Reversed(comps, i, division, base) ==
    IF i > Len(comps) THEN [rs |-> <<>>, base |-> base, calls |-> 0]
    ELSE CHOOSE res \in UNION
            {{[rs |-> <<[tag |-> r.tag, err |-> r.err, b |-> r.b, arg |-> m.bs]>> \o rest.rs,
               base |-> rest.base, calls |-> m.calls + rest.calls] :
                 r \in {try_new(m.bs)},
                 rest \in {SweepComponents_Reversed(comps, i + 1, division, m.base)}} :
                    m \in {SweepWires(extract_boundaries(comps[Len(comps) + 1 - i]), 1, division, base)}} : TRUE

\* The map of Shell::closed_sweep over the components: [rs, base, calls], rs
\* the results of try_new with the boundaries it was given.
RECURSIVE SweepComponents(_, _, _, _)
SweepComponents(comps, i, division, base) ==
    IF i > Len(comps) THEN [rs |-> <<>>, base |-> base, calls |-> 0]
    ELSE CHOOSE res \in UNION
            {{[rs |-> <<[tag |-> r.tag, err |-> r.err, b |-> r.b, arg |-> m.bs]>> \o rest.rs,
               base |-> rest.base, calls |-> m.calls + rest.calls] :
                 r \in {try_new(m.bs)},
                 rest \in {SweepComponents(comps, i + 1, division, m.base)}} :
                    m \in {SweepWires(extract_boundaries(comps[i]), 1, division, base)}} : TRUE

Shell_closed_sweep(shell, division, base) ==
    CHOOSE res \in
        {[rs |-> m.rs, used |-> m.base - base, calls |-> m.calls] :
            m \in {SweepComponents(comps, 1, division, base) :
                      comps \in {connected_components(shell)}}} : TRUE

(***************************************************************************)
(* tessellation of triangulation.rs.  A point of space is <<"v", vertex>>  *)
(* (the point of a vertex) or <<"c", edge, n>> (the n-th inner point of    *)
(* the division of a curve).  An edge of the output is [id, f, b, o, poly],*)
(* poly the points of its polyline from f to b.  The searches that fail    *)
(* are given by two sets of <<surface, point>>: noHint for the search      *)
(* without hint, hinted for the search with the hint of the point before.  *)
(***************************************************************************)
Reverse(q) == [k \in 1..Len(q) |-> q[Len(q) + 1 - k]]

\* curve.parameter_division(...) mapped by curve.subs: the division of the
\* curve of an input edge, from its absolute front to its absolute back.
Poly(e) ==
    IF e.id % 2 = 0 THEN << <<"v", e.f>>, <<"v", e.b>> >>
    ELSE << <<"v", e.f>>, <<"c", e.id, 1>>, <<"c", e.id, 2>>, <<"v", e.b>> >>

oriented_curve(e) == IF e.o THEN e.poly ELSE Reverse(e.poly)

\* The vertices shell.vertex_iter() yields: the fronts of the boundary edges.
TessVertices(sh) ==
    {front(IF sh[p[1]].o THEN OccEdge(sh, p) ELSE inverse(OccEdge(sh, p))) : p \in Occ(sh)}

\* The vertex pass that stops after the first vertex it meets.
VertexPass_FirstOnly(sh, base) ==
    [v \in {w \in TessVertices(sh) : Rank(TessVertices(sh), w) = 0} |-> base]

\* The first loop: a new vertex for every vertex identity.
VertexPass(sh, base) ==
    [v \in TessVertices(sh) |-> base + Rank(TessVertices(sh), v)]

\* The branch of an edge that is in edge_map already.
MemoHit(e, new_edge) ==
    IF e.f = front(e) THEN new_edge ELSE inverse(new_edge)

\* The branch of an edge that is seen for the first time.
MemoMiss(e, new_edge) ==
    IF e.o THEN new_edge ELSE inverse(new_edge)

\* The body that never looks into edge_map: every occurrence of an edge gets
\* a division and an edge of its own.
TessEdge_Rediscretize(e, vmap, st) ==
    LET new_edge == [id |-> st.next, f |-> vmap[e.f], b |-> vmap[e.b],
                     o |-> TRUE, poly |-> Poly(e)]
    IN  [edge_map |-> (e.id :> new_edge) @@ st.edge_map,
         divs |-> [st.divs EXCEPT ![e.id] = @ + 1],
         next |-> st.next + 1,
         wire |-> Append(st.wire, MemoMiss(e, new_edge)),
         panic |-> st.panic]

\* The body of the loop over the edges of a boundary.  The state is
\* [edge_map, divs, next, wire, panic]: the memo, the number of divisions
\* made of every curve, the next identity, the wire under construction and
\* whether an unwrap of vmap has failed.
TessEdge(e, vmap, st) ==
    IF e.id \in DOMAIN st.edge_map
    THEN [st EXCEPT !.wire = Append(@, MemoHit(e, st.edge_map[e.id]))]
    ELSE IF e.f \notin DOMAIN vmap \/ e.b \notin DOMAIN vmap
    THEN [st EXCEPT !.panic = TRUE]
    ELSE LET new_edge == [id |-> st.next, f |-> vmap[e.f], b |-> vmap[e.b],
                          o |-> TRUE, poly |-> Poly(e)]
         IN  [edge_map |-> (e.id :> new_edge) @@ st.edge_map,
              divs |-> [st.divs EXCEPT ![e.id] = @ + 1],
              next |-> st.next + 1,
              wire |-> Append(st.wire, MemoMiss(e, new_edge)),
              panic |-> st.panic]

RECURSIVE TessWire(_, _, _, _)
TessWire(w, k, vmap, st) ==
    IF k > Len(w) \/ st.panic THEN st
    ELSE TessWire(w, k + 1, vmap, TessEdge(w[k], vmap, st))

\* The loop over the absolute boundaries of a face: [wires, st].
RECURSIVE TessWires(_, _, _, _)
TessWires(bnd, j, vmap, st) ==
    IF j > Len(bnd) \/ st.panic THEN [wires |-> <<>>, st |-> st]
    ELSE LET r == TessWire(bnd[j], 1, vmap, [st EXCEPT !.wire = <<>>])
             rest == TessWires(bnd, j + 1, vmap, r)
         IN  [wires |-> <<r.wire>> \o rest.wires, st |-> rest.st]

\* surface.search_parameter(pt, hint, 100): whether a parameter is found.
\* hint is <<"None">> or the parameter the search starts from.
search_parameter(surface, pt, hint, noHint, hinted) ==
    IF hint = <<"None">> THEN <<surface, pt>> \notin noHint ELSE <<surface, pt>> \notin hinted

\* The search that gives up when the search with the hint fails.
search_NoFallback(surface, pt, hint, noHint, hinted) ==
    search_parameter(surface, pt, hint, noHint, hinted)

\* surface.search_parameter(pt, hint, 100).or_else(|| search_parameter(pt, None, 100)):
\* whether a parameter is found.
search(surface, pt, hint, noHint, hinted) ==
    \/ search_parameter(surface, pt, hint, noHint, hinted)
    \/ search_parameter(surface, pt, <<"None">>, noHint, hinted)

\* The inner all() of add_wire over the points of one edge, from point k on
\* and with the hint left by the point before: [ok, pushed, log], log one
\* entry [pt, hint, again] per point searched, again telling whether
\* or_else ran its closure.
RECURSIVE SearchPoints(_, _, _, _, _, _)
SearchPoints(surface, pts, k, hint, noHint, hinted) ==
    IF k > Len(pts) THEN [ok |-> TRUE, pushed |-> <<>>, log |-> <<>>]
    ELSE LET entry == [pt |-> pts[k], hint |-> hint,
                       again |-> ~search_parameter(surface, pts[k], hint, noHint, hinted)]
         IN  IF ~search(surface, pts[k], hint, noHint, hinted)
             THEN [ok |-> FALSE, pushed |-> <<>>, log |-> <<entry>>]
             ELSE CHOOSE x \in
                    {[ok |-> rest.ok, pushed |-> << <<"uv", surface, pts[k]>> >> \o rest.pushed,
                      log |-> <<entry>> \o rest.log] :
                        rest \in {SearchPoints(surface, pts, k + 1, <<"uv", surface, pts[k]>>,
                                               noHint, hinted)}} : TRUE

\* The polyline of the edge with its last point kept.
PolyEdge_KeepLast(e) == oriented_curve(e)

\* edge.oriented_curve() after pop().
PolyEdge(e) == SubSeq(oriented_curve(e), 1, Len(oriented_curve(e)) - 1)

\* The outer all() of add_wire over the edges: [ok, pushed, counter, log],
\* log the log of every edge reached.
RECURSIVE SearchEdges(_, _, _, _, _)
SearchEdges(surface, wire, k, noHint, hinted) ==
    IF k > Len(wire) THEN [ok |-> TRUE, pushed |-> <<>>, counter |-> 0, log |-> <<>>]
    ELSE CHOOSE x \in UNION {
            { IF ~r.ok
              THEN [ok |-> FALSE, pushed |-> r.pushed, counter |-> Len(PolyEdge(wire[k])),
                    log |-> <<r.log>>]
              ELSE CHOOSE y \in
                     {[ok |-> rest.ok, pushed |-> r.pushed \o rest.pushed,
                       counter |-> Len(PolyEdge(wire[k])) + rest.counter,
                       log |-> <<r.log>> \o rest.log] :
                         rest \in {SearchEdges(surface, wire, k + 1, noHint, hinted)}} : TRUE }
            : r \in {SearchPoints(surface, PolyEdge(wire[k]), 1, <<"None">>, noHint, hinted)} }
         : TRUE

\* add_wire that does not join the last point of the wire to the first.
add_wire_Unclosed(self, surface, wire, noHint, hinted) ==
    LET len == Len(self.positions)
        r == SearchEdges(surface, wire, 1, noHint, hinted)
    IN  [res |-> r.ok,
         polyline |->
            [positions |-> self.positions \o r.pushed,
             indices |-> self.indices \o
                 [i \in 1..r.counter |-> <<len + (i - 1), len + i>>]],
         log |-> r.log]

\* Polyline::add_wire: [res, polyline, log], a polyline being [positions, indices].
add_wire(self, surface, wire, noHint, hinted) ==
    LET len == Len(self.positions)
        r == SearchEdges(surface, wire, 1, noHint, hinted)
    IN  [res |-> r.ok,
         polyline |->
            [positions |-> self.positions \o r.pushed,
             indices |-> self.indices \o
                 [i \in 1..r.counter |-> <<len + (i - 1), len + (i % r.counter)>>]],
         log |-> r.log]

\* wires.iter().all(|wire| polyline.add_wire(&surface, wire)): [res, polyline,
\* calls], calls one entry [self, surface, wire, res, polyline, log] per call of
\* add_wire.
RECURSIVE AddWires(_, _, _, _, _, _)
AddWires(polyline, surface, wires, j, noHint, hinted) ==
    IF j > Len(wires) THEN [res |-> TRUE, polyline |-> polyline, calls |-> <<>>]
    ELSE CHOOSE x \in UNION {
            { IF ~r.res
              THEN [res |-> FALSE, polyline |-> r.polyline,
                    calls |-> << [self |-> polyline, surface |-> surface, wire |-> wires[j],
                                  res |-> r.res,
                                  polyline |-> r.polyline, log |-> r.log] >>]
              ELSE CHOOSE y \in
                     {[res |-> rest.res, polyline |-> rest.polyline,
                       calls |-> << [self |-> polyline, surface |-> surface, wire |-> wires[j],
                                  res |-> r.res,
                                     polyline |-> r.polyline, log |-> r.log] >> \o rest.calls] :
                         rest \in {AddWires(r.polyline, surface, wires, j + 1,
                                            noHint, hinted)}} : TRUE }
            : r \in {add_wire(polyline, surface, wires[j], noHint, hinted)} }
         : TRUE

\* The new face that keeps its bit whatever the bit of the input face.
NewFace_NeverInverted(face, id, wires, polygon) ==
    [id |-> id, bnd |-> wires, o |-> TRUE, mesh |-> polygon]

\* Face::debug_new(wires, polygon), inverted when the input face is.
NewFace(face, id, wires, polygon) ==
    LET new_face == [id |-> id, bnd |-> wires, o |-> TRUE, mesh |-> polygon]
    IN  IF ~face.o THEN invert(new_face) ELSE new_face

\* The body of the loop over the faces: [tag, st, face, polyline, calls], tag
\* "pushed", "None" or "Panic".
TessFaceBody(face, vmap, st, noHint, hinted) ==
    LET w == TessWires(face.bnd, 1, vmap, st)
        a == AddWires([positions |-> <<>>, indices |-> <<>>], face.id, w.wires, 1,
                      noHint, hinted)
        polygon == [surface |-> face.id, boundary |-> a.polyline]
    IN  IF w.st.panic
        THEN [tag |-> "Panic", st |-> w.st, face |-> <<>>, polyline |-> a.polyline,
              calls |-> a.calls]
        ELSE IF ~a.res
        THEN [tag |-> "None", st |-> w.st, face |-> <<>>, polyline |-> a.polyline,
              calls |-> a.calls]
        ELSE [tag |-> "pushed", st |-> [w.st EXCEPT !.next = @ + 1],
              face |-> NewFace(face, w.st.next, w.wires, polygon),
              polyline |-> a.polyline, calls |-> a.calls]

(***************************************************************************)
(* Polyline::include.  The arithmetic is exact.  A point of the parameter  *)
(* plane is <<u, v>>, u and v integers that count 1/Den; a tolerance is    *)
(* <<n, d>>, the number n/d; x, a product of three coordinates, counts     *)
(* 1/Den^3.  An edge of a polyline is a pair of indices into positions,    *)
(* counted from 0.                                                         *)
(***************************************************************************)
Den == 2

Abs(x) == IF x < 0 THEN -x ELSE x

\* y < tol, y > tol, y <= tol, y >= tol for y that counts 1/unit, and -tol.
Lt(y, unit, tol) == y * tol[2] < tol[1] * unit
Gt(y, unit, tol) == y * tol[2] > tol[1] * unit
Le(y, unit, tol) == y * tol[2] <= tol[1] * unit
Ge(y, unit, tol) == y * tol[2] >= tol[1] * unit
Neg(tol) == <<-tol[1], tol[2]>>

\* The closure that counts every crossing, whatever the sign of x.
IncludeStep_AnyCrossing(self, counter, e, c, tol) ==
    LET a == <<self.positions[e[1] + 1][1] - c[1], self.positions[e[1] + 1][2] - c[2]>>
        b == <<self.positions[e[2] + 1][1] - c[1], self.positions[e[2] + 1][2] - c[2]>>
        x == (a[1] * b[2] - a[2] * b[1]) * (b[2] - a[2])
    IN  IF Lt(Abs(x), Den * Den * Den, tol) /\ a[2] * b[2] < 0
        THEN [some |-> FALSE, counter |-> counter]
        ELSE IF Le(a[2], Den, Neg(tol)) /\ Gt(b[2], Den, tol)
        THEN [some |-> TRUE, counter |-> counter + 1]
        ELSE IF Ge(a[2], Den, tol) /\ Lt(b[2], Den, Neg(tol))
        THEN [some |-> TRUE, counter |-> counter - 1]
        ELSE [some |-> TRUE, counter |-> counter]

\* The closure of try_fold for one edge: [some, counter].
IncludeStep(self, counter, e, c, tol) ==
    LET a == <<self.positions[e[1] + 1][1] - c[1], self.positions[e[1] + 1][2] - c[2]>>
        b == <<self.positions[e[2] + 1][1] - c[1], self.positions[e[2] + 1][2] - c[2]>>
        x == (a[1] * b[2] - a[2] * b[1]) * (b[2] - a[2])
    IN  IF Lt(Abs(x), Den * Den * Den, tol) /\ a[2] * b[2] < 0
        THEN [some |-> FALSE, counter |-> counter]
        ELSE IF Gt(x, Den * Den * Den, tol) /\ Le(a[2], Den, Neg(tol)) /\ Gt(b[2], Den, tol)
        THEN [some |-> TRUE, counter |-> counter + 1]
        ELSE IF Gt(x, Den * Den * Den, tol) /\ Ge(a[2], Den, tol) /\ Lt(b[2], Den, Neg(tol))
        THEN [some |-> TRUE, counter |-> counter - 1]
        ELSE [some |-> TRUE, counter |-> counter]

\* try_fold: the fold stops at the first None.
RECURSIVE IncludeFold(_, _, _, _, _)
IncludeFold(self, k, counter, c, tol) ==
    IF k > Len(self.indices) THEN [some |-> TRUE, counter |-> counter]
    ELSE LET r == IncludeStep(self, counter, self.indices[k], c, tol)
         IN  IF ~r.some THEN r
             ELSE IncludeFold(self, k + 1, r.counter, c, tol)

\* The test that goes on after an edge through the query point.
include_NeverAbandons(self, c, tol) ==
    LET Count(k) == IncludeStep(self, 0, self.indices[k], c, tol).counter
        Sum[k \in 0..Len(self.indices)] == IF k = 0 THEN 0 ELSE Sum[k - 1] + Count(k)
    IN  Sum[Len(self.indices)] > 0

\* Polyline::include: .map(|counter| counter > 0).unwrap_or(false).
include(self, c, tol) ==
    LET r == IncludeFold(self, 1, 0, c, tol)
    IN  IF r.some THEN r.counter > 0 ELSE FALSE

(***************************************************************************)
(* The state machine.                                                      *)
(***************************************************************************)
NoSolid == [some |-> FALSE, b |-> NoBnd]

NoOp == [name |-> "", arg |-> NoBnd, e |-> 0, v |-> 0, failAt |-> 0,
         failP |-> {}, failC |-> {}, failS |-> {}]

NoOut == [tag |-> "init", err |-> "", b |-> NoBnd]

NoCall == [op |-> NoOp, pre |-> NoSolid, out |-> NoOut]

NoCube == [pc |-> 0, shell |-> <<>>, panicked |-> FALSE]

NoSweep == [pc |-> "idle", division |-> 0, self |-> SweptVertex, wire |-> <<>>,
            vertex |-> SweptVertex, i |-> 0, calls |-> 0]

NoSweepCall == [kind |-> "", self |-> <<>>, division |-> 0, res |-> <<>>]

(***************************************************************************)
(* The trimmed triangulation of one face (triangulation.rs 123-218).  The  *)
(* constrained Delaunay triangulation itself is the spade crate's: its     *)
(* vertices are the points inserted, in insertion order and without        *)
(* repetition, a vertex's fix() is its index, and its triangles are given  *)
(* with the input.                                                         *)
(***************************************************************************)
\* truck_base::tolerance::TOLERANCE, 1.0e-6.
TOLERANCE == <<1, 1000000>>

\* The cross product of udiv and vdiv, u outermost.
Samples(udiv, vdiv) ==
    [n \in 1..(Len(udiv) * Len(vdiv)) |->
        <<udiv[((n - 1) \div Len(vdiv)) + 1], vdiv[((n - 1) % Len(vdiv)) + 1]>>]

\* insert_surface: the samples of the parameter division that pass include.
insert_surface(polyline, udiv, vdiv) ==
    LET Inside(pt) == include(polyline, pt, TOLERANCE)
    IN  SelectSeq(Samples(udiv, vdiv), Inside)

RECURSIVE Distinct(_, _)
\* The points of pts that are not in seen, each once, in order.
Distinct(seen, pts) ==
    IF pts = <<>> THEN <<>>
    ELSE IF \E i \in DOMAIN seen : seen[i] = Head(pts) THEN Distinct(seen, Tail(pts))
    ELSE <<Head(pts)>> \o Distinct(Append(seen, Head(pts)), Tail(pts))

\* The vertices of the triangulation after insert_to and insert_surface.
CdtVertices(polyline, inserted) ==
    polyline.positions \o Distinct(polyline.positions, inserted)

\* The polyline with every coordinate multiplied by k.
Scaled(self, k) ==
    [self EXCEPT !.positions =
        [i \in DOMAIN self.positions |-> <<k * self.positions[i][1], k * self.positions[i][2]>>]]

\* Three times the centroid of triangle tri of vertices.
Centroid3(vertices, tri) ==
    <<vertices[tri[1] + 1][1] + vertices[tri[2] + 1][1] + vertices[tri[3] + 1][1],
      vertices[tri[1] + 1][2] + vertices[tri[2] + 1][2] + vertices[tri[3] + 1][2]>>

\* The centroid test of triangulation_into_polymesh, include(c, 0.0): with
\* tolerance 0 include compares signs only, so it is computed at thrice the scale.
CentroidIncluded(polyline, vertices, tri) ==
    include(Scaled(polyline, 3), Centroid3(vertices, tri), <<0, 1>>)

\* A mesh face on the vertex k of the mesh, with one index for all three attributes.
TriVertex_UvZero(k) == [pos |-> k, uv |-> 0, nor |-> k]

TriVertex(k) == [pos |-> k, uv |-> k, nor |-> k]

\* triangulation_into_polymesh: one entry of each attribute per vertex, and
\* one triangle per triangle of the triangulation whose centroid include accepts.
triangulation_into_polymesh(vertices, triangles, polyline) ==
    LET vmap == [f \in 0..(Len(vertices) - 1) |-> f]
        Kept(tri) == CentroidIncluded(polyline, vertices, tri)
        kept == SelectSeq(triangles, Kept)
    IN  [positions |-> [i \in DOMAIN vertices |-> <<"subs", vertices[i]>>],
         uv_coords |-> vertices,
         normals |-> [i \in DOMAIN vertices |-> <<"normal", vertices[i]>>],
         tri_faces |-> [n \in DOMAIN kept |->
                           <<TriVertex(vmap[kept[n][1]]), TriVertex(vmap[kept[n][2]]),
                             TriVertex(vmap[kept[n][3]])>>],
         quad_faces |-> <<>>]

\* make_face_compatible_to_normal: a triangle whose geometric normal is
\* against the normals of its vertices is turned over.
make_face_compatible_to_normal(mesh, against) ==
    [mesh EXCEPT !.tri_faces =
        [n \in DOMAIN mesh.tri_faces |->
            IF against THEN <<mesh.tri_faces[n][1], mesh.tri_faces[n][3], mesh.tri_faces[n][2]>>
            ELSE mesh.tri_faces[n]]]

\* trimming_tessellation of a boundary polyline on a surface whose parameter
\* division is udiv, vdiv; cdt gives the triangles of the triangulation.
trimming_tessellation(polyline, udiv, vdiv, cdt, against) ==
    LET inserted == insert_surface(polyline, udiv, vdiv)
        vertices == CdtVertices(polyline, inserted)
    IN  [inserted |-> inserted, vertices |-> vertices, triangles |-> cdt,
         mesh |-> make_face_compatible_to_normal(
                      triangulation_into_polymesh(vertices, cdt, polyline), against)]

NoTess ==
    [pc |-> "idle", shell |-> <<>>, noHint |-> {}, hinted |-> {}, vmap |-> <<>>,
     st |-> [edge_map |-> <<>>, divs |-> <<>>, next |-> 0, wire |-> <<>>,
             panic |-> FALSE],
     shell0 |-> <<>>, i |-> 0, polyline |-> [positions |-> <<>>, indices |-> <<>>],
     calls |-> <<>>, res |-> ""]

NoInclude ==
    [called |-> FALSE, self |-> [positions |-> <<>>, indices |-> <<>>],
     c |-> <<0, 0>>, tol |-> <<0, 1>>, res |-> FALSE]

NoMesh ==
    [called |-> FALSE, polyline |-> [positions |-> <<>>, indices |-> <<>>],
     inserted |-> <<>>, vertices |-> <<>>, triangles |-> <<>>,
     mesh |-> [positions |-> <<>>, uv_coords |-> <<>>, normals |-> <<>>,
               tri_faces |-> <<>>, quad_faces |-> <<>>]]

\* The boundary lists the operations of a solid are explored from.
OpsLists ==
    { <<Pillow1>>, <<Pillow1, Pillow1>>, <<Pillow1, Pillow2>>, <<Pillow2, OpenShell>> }

Init ==
    /\ mode \in {"ctor", "ops", "cube", "sweep", "xsweep", "tess", "pip", "mesh"}
    /\ debug \in BOOLEAN
    /\ solid = NoSolid
    /\ pre = NoSolid
    /\ op = NoOp
    /\ out = NoOut
    /\ nextId = 50
    /\ nops = 0
    /\ last = NoCall
    /\ cb = NoCube
    /\ sw = NoSweep
    /\ sx = NoSweepCall
    /\ ts = NoTess
    /\ pip = NoInclude
    /\ pm = NoMesh

Args == IF mode = "ctor" THEN BoundaryLists ELSE OpsLists

\* A constructor was called with boundaries and returned r.
Constructed(name, boundaries, r) ==
    /\ mode \in {"ctor", "ops"}
    /\ out.tag = "init"
    /\ op' = [NoOp EXCEPT !.name = name, !.arg = boundaries]
    /\ out' = [tag |-> r.tag, err |-> r.err, b |-> r.b]
    /\ solid' = IF r.tag = "Ok" THEN [some |-> TRUE, b |-> r.b] ELSE NoSolid
    /\ UNCHANGED <<mode, debug, pm, sx, ts, pip, pre, nextId, nops, last, cb, sw>>

New == \E boundaries \in Args : Constructed("new", boundaries, new(boundaries))

TryNew == \E boundaries \in Args : Constructed("try_new", boundaries, try_new(boundaries))

NewUnchecked ==
    \E boundaries \in Args :
        Constructed("new_unchecked", boundaries, new_unchecked(boundaries))

DebugNew ==
    \E boundaries \in Args :
        Constructed("debug_new", boundaries, debug_new(boundaries, debug))

SolidVertices(b) == UNION {ShellVertices(b[i]) : i \in 1..Len(b)}

SolidEdgeIds(b) == UNION {ShellEdgeIds(b[i]) : i \in 1..Len(b)}

SolidFaceIds(b) == UNION {ShellFaceIds(b[i]) : i \in 1..Len(b)}

\* The sets with at most one element of S.
AtMostOne(S) == {{}} \cup {{x} : x \in S}

CanCall == mode = "ops" /\ solid.some /\ nops < MaxOps

\* A method of the solid at hand returned r; after is the solid at hand afterwards.
Called(o, r, after) ==
    /\ op' = o
    /\ out' = [tag |-> r.tag, err |-> r.err, b |-> r.b]
    /\ pre' = solid
    /\ solid' = after
    /\ nextId' = nextId + r.used
    /\ nops' = nops + 1
    /\ last' = IF op.name = "cut_edge" THEN [op |-> op, pre |-> pre, out |-> out]
               ELSE NoCall
    /\ UNCHANGED <<mode, debug, pm, sx, ts, pip, cb, sw>>

Mapped ==
    /\ CanCall
    /\ LET r == mapped(solid.b, nextId, debug)
       IN  Called([NoOp EXCEPT !.name = "mapped"], r,
                  IF r.tag = "Ok" THEN [some |-> TRUE, b |-> r.b] ELSE solid)

TryMapped ==
    /\ CanCall
    /\ \E failP \in AtMostOne(SolidVertices(solid.b)),
          failC \in AtMostOne(SolidEdgeIds(solid.b)),
          failS \in AtMostOne(SolidFaceIds(solid.b)) :
          /\ Cardinality(failP) + Cardinality(failC) + Cardinality(failS) <= 1
          /\ LET r == try_mapped(solid.b, nextId, debug, failP, failC, failS)
             IN  Called([NoOp EXCEPT !.name = "try_mapped", !.failP = failP,
                                     !.failC = failC, !.failS = failS], r,
                        IF r.tag = "Some" THEN [some |-> TRUE, b |-> r.b] ELSE solid)

\* The vertex is one the caller has just made: its identity is nextId.  The
\* cut of the curve can fail in a shell that holds the edge.
CutEdge ==
    /\ CanCall
    /\ \E eid \in SolidEdgeIds(solid.b) :
       \E failAt \in {0} \cup {i \in 1..Len(solid.b) : eid \in ShellEdgeIds(solid.b[i])} :
          LET r == cut_edge(solid.b, eid, nextId, nextId + 1, failAt, debug)
          IN  Called([NoOp EXCEPT !.name = "cut_edge", !.e = eid, !.v = nextId,
                                  !.failAt = failAt],
                     [tag |-> r.tag, err |-> r.err, b |-> NoBnd, used |-> r.used + 1],
                     [some |-> TRUE, b |-> r.b])

RemoveVertex ==
    /\ CanCall
    /\ \E vid \in SolidVertices(solid.b), failAt \in 0..Len(solid.b) :
          LET r == remove_vertex_by_concat_edges(solid.b, vid, nextId, failAt, debug)
          IN  Called([NoOp EXCEPT !.name = "remove_vertex_by_concat_edges",
                                  !.v = vid, !.failAt = failAt],
                     [tag |-> r.tag, err |-> r.err, b |-> NoBnd, used |-> r.used],
                     [some |-> TRUE, b |-> r.b])

\* cube(): a push, and the assertions that follow the second and third push.
CubePush ==
    /\ mode = "cube"
    /\ cb.pc < Len(CubePushes)
    /\ ~cb.panicked
    /\ LET shell == Append(cb.shell, CubePushes[cb.pc + 1])
           n == cb.pc + 1
       IN  cb' = [pc |-> n, shell |-> shell,
                  panicked |->
                      \/ n = 2 /\ is_connected(shell)
                      \/ n = 3 /\ shell_condition(shell) # "Oriented"
                      \/ n = 3 /\ ~is_connected(shell)]
    /\ UNCHANGED <<mode, debug, pm, sx, ts, pip, solid, pre, op, out, nextId, nops, last, sw>>

\* cube(): Solid::new(vec![shell]).
CubeSolid ==
    /\ mode = "cube"
    /\ cb.pc = Len(CubePushes)
    /\ ~cb.panicked
    /\ out.tag = "init"
    /\ LET r == new(<<cb.shell>>)
       IN  /\ out' = [tag |-> r.tag, err |-> r.err, b |-> r.b]
           /\ solid' = IF r.tag = "Ok" THEN [some |-> TRUE, b |-> r.b] ELSE NoSolid
    /\ op' = [NoOp EXCEPT !.name = "new", !.arg = <<cb.shell>>]
    /\ UNCHANGED <<mode, debug, pm, sx, ts, pip, pre, nextId, nops, last, cb, sw>>

SweepStart ==
    /\ mode = "sweep"
    /\ sw.pc = "idle"
    /\ \E division \in 0..MaxDivision :
          sw' = [NoSweep EXCEPT !.pc = "loop", !.division = division, !.i = 1]
    /\ UNCHANGED <<mode, debug, pm, sx, ts, pip, solid, pre, op, out, nextId, nops, last, cb>>

SweepLoop ==
    /\ mode = "sweep"
    /\ sw.pc = "loop"
    /\ InRange(sw.i, sw.division)
    /\ LET r == SweepBody(sw.wire, sw.vertex, nextId)
       IN  /\ sw' = [sw EXCEPT !.wire = r.wire, !.vertex = r.vertex,
                                !.i = @ + 1, !.calls = @ + 1]
           /\ nextId' = nextId + r.used
    /\ UNCHANGED <<mode, debug, pm, sx, ts, pip, solid, pre, op, out, nops, last, cb>>

SweepReturn ==
    /\ mode = "sweep"
    /\ sw.pc = "loop"
    /\ ~InRange(sw.i, sw.division)
    /\ sw' = [sw EXCEPT !.pc = "done",
                        !.wire = SweepLast(sw.wire, sw.vertex, sw.self, nextId)]
    /\ nextId' = nextId + 1
    /\ UNCHANGED <<mode, debug, pm, sx, ts, pip, solid, pre, op, out, nops, last, cb>>

\* The entities the closed sweeps are tried on.
SweptEdge == Edge(11, 1, 2)

SquareWire == <<Edge(11, 1, 2), Edge(12, 2, 3), Edge(13, 3, 4), Edge(14, 4, 1)>>

\* One edge from 1 to 2: a wire that is not closed.
OpenWire == <<SweptEdge>>

PillowWire == Pillow1[1].bnd[1]

\* A face with an outer boundary and a hole.
HoledFace == Face(27, <<SquareWire, <<Edge(15, 5, 6), Edge(16, 6, 5)>> >>)

\* A face whose boundary is not closed, as Face::new_unchecked accepts it.
OpenFace == Face(28, <<OpenWire>>)

\* The faces of the first pillow with a face of the second between them.
Interleaved == <<Pillow1[1], Pillow2[1], Pillow1[2]>>

\* Two faces that run their common edge in the same direction.
Fork ==
    << Face(21, << <<Edge(11, 1, 2), Edge(12, 2, 1)>> >>),
       Face(22, << <<Edge(11, 1, 2), Edge(13, 2, 1)>> >>) >>

SweptEdges == {SweptEdge, inverse(SweptEdge), Edge(11, 1, 1)}

SweptWires == {<<>>, PillowWire, SquareWire, OpenWire, <<Edge(11, 1, 1)>>}

SweptFaces == {Pillow1[1], invert(Pillow1[1]), HoledFace, invert(HoledFace), OpenFace}

SweptShells == {EmptyShell, Pillow1, OpenShell, OpenPair, Interleaved, Fork}

\* A closed sweep of kind was called on self and returned r.
Swept(kind, self, division, r) ==
    /\ mode = "xsweep"
    /\ sx.kind = ""
    /\ sx' = [kind |-> kind, self |-> self, division |-> division, res |-> r]
    /\ nextId' = nextId + r.used
    /\ UNCHANGED <<mode, debug, pm, ts, pip, solid, pre, op, out, nops, last, cb, sw>>

EdgeSweep ==
    \E self \in SweptEdges, division \in 0..MaxDivision :
        Swept("Edge", self, division, Edge_closed_sweep(self, division, nextId))

WireSweep ==
    \E self \in SweptWires, division \in 0..MaxDivision :
        Swept("Wire", self, division, Wire_closed_sweep(self, division, nextId))

FaceSweep ==
    \E self \in SweptFaces, division \in 0..MaxDivision :
        Swept("Face", self, division, Face_closed_sweep(self, division, nextId, debug))

ShellSweep ==
    \E self \in SweptShells, division \in 0..MaxDivision :
        Swept("Shell", self, division, Shell_closed_sweep(self, division, nextId))

\* Two faces on one loop edge, the second running it reversed.
LoopShell ==
    << Face(21, << <<Edge(11, 1, 1)>> >>),
       Face(22, << <<inverse(Edge(11, 1, 1))>> >>) >>

\* The shells that are tessellated.  The boundaries of their faces are closed.
TessShells ==
    {EmptyShell, Pillow1, <<Pillow1[2], Pillow1[1]>>, <<invert(Pillow1[1])>>,
     <<HoledFace>>, LoopShell}

\* The points of the boundary of every face, with the surface of the face.
BoundaryPoints(sh) ==
    UNION {{<<sh[p[1]].id, Poly(OccEdge(sh, p))[k]>> :
                k \in 1..Len(Poly(OccEdge(sh, p)))} : p \in Occ(sh)}

\* tessellation is called on a shell: the first loop builds vmap.
TessCall ==
    /\ mode = "tess"
    /\ ts.pc = "idle"
    /\ \E shell \in TessShells :
       \E noHint \in AtMostOne(BoundaryPoints(shell)),
          hinted \in {{}, BoundaryPoints(shell)} :
           ts' = [NoTess EXCEPT
                    !.pc = "faces", !.shell = shell, !.noHint = noHint,
                    !.hinted = hinted,
                    !.vmap = VertexPass(shell, nextId),
                    !.st = [edge_map |-> <<>>,
                            divs |-> [id \in ShellEdgeIds(shell) |-> 0],
                            next |-> nextId + Cardinality(TessVertices(shell)),
                            wire |-> <<>>, panic |-> FALSE],
                    !.i = 1]
    /\ UNCHANGED <<mode, debug, pm, sx, pip, solid, pre, op, out, nextId, nops, last, cb, sw>>

\* One turn of the loop over the faces.
TessFace ==
    /\ mode = "tess"
    /\ ts.pc = "faces"
    /\ ts.i <= Len(ts.shell)
    /\ LET r == TessFaceBody(ts.shell[ts.i], ts.vmap, ts.st, ts.noHint, ts.hinted)
       IN  ts' = IF r.tag = "pushed"
                 THEN [ts EXCEPT !.st = r.st, !.shell0 = Append(@, r.face),
                                 !.i = @ + 1, !.polyline = r.polyline,
                                 !.calls = r.calls]
                 ELSE [ts EXCEPT !.st = r.st, !.pc = "done", !.res = r.tag,
                                 !.polyline = r.polyline, !.calls = r.calls]
    /\ UNCHANGED <<mode, debug, pm, sx, pip, solid, pre, op, out, nextId, nops, last, cb, sw>>

\* The loop over the faces is over: Some(shell0).
TessReturn ==
    /\ mode = "tess"
    /\ ts.pc = "faces"
    /\ ts.i > Len(ts.shell)
    /\ ts' = [ts EXCEPT !.pc = "done", !.res = "Some"]
    /\ UNCHANGED <<mode, debug, pm, sx, pip, solid, pre, op, out, nextId, nops, last, cb, sw>>

\* The points of the parameter plane.
Grid == {<<u, v>> : u \in -1..1, v \in -MaxCoord..MaxCoord}

\* The polyline add_wire makes of one closed wire with these points.
Loop(pts) ==
    [positions |-> pts,
     indices |-> [i \in 1..Len(pts) |-> <<i - 1, i % Len(pts)>>]]

\* The polylines that are queried: every single edge, a rectangle in both
\* directions, a triangle, and a rectangle whose edges are listed out of order.
Polylines ==
    {[positions |-> <<a, b>>, indices |-> << <<0, 1>> >>] : a, b \in Grid}
    \cup {Loop(<< <<-1, -MaxCoord>>, <<1, -MaxCoord>>, <<1, MaxCoord>>, <<-1, MaxCoord>> >>),
          Loop(<< <<-1, MaxCoord>>, <<1, MaxCoord>>, <<1, -MaxCoord>>, <<-1, -MaxCoord>> >>),
          Loop(<< <<-1, -1>>, <<1, -1>>, <<0, MaxCoord>> >>),
          [positions |-> << <<-1, -MaxCoord>>, <<1, -MaxCoord>>, <<1, MaxCoord>>, <<-1, MaxCoord>> >>,
           indices |-> << <<2, 3>>, <<0, 1>>, <<3, 0>>, <<1, 2>> >>]}

\* The unit square, and the three points it is asked about.
UnitSquare == Loop(<< <<0, 0>>, <<Den, 0>>, <<Den, Den>>, <<0, Den>> >>)

UnitQueries == {<<1, 1>>, <<Den + 1, 1>>, <<1, 0>>}

\* The tolerances: 0 as the filter of the triangles passes it, a tiny one and 1.
IncludeTols == {<<0, 1>>, <<1, 1000000>>, <<1, 1>>}

\* The calls of include: the polylines with the points of the grid, and the
\* unit square with its points.
Queries ==
    {<<self, c>> : self \in Polylines, c \in Grid}
        \cup {<<UnitSquare, c>> : c \in UnitQueries}

\* include is called on a polyline.
Include ==
    /\ mode = "pip"
    /\ ~pip.called
    /\ \E q \in Queries, tol \in IncludeTols :
        pip' = [called |-> TRUE, self |-> q[1], c |-> q[2], tol |-> tol,
                res |-> include(q[1], q[2], tol)]
    /\ UNCHANGED <<mode, debug, pm, sx, ts, solid, pre, op, out, nextId, nops, last, cb, sw>>

\* The point (x, y) of the parameter plane.
At(x, y) == <<Den * x, Den * y>>

\* A square with a notch from the left whose tip is level with nothing else.
Notched == Loop(<<At(0, 0), At(6, 0), At(6, 6), At(0, 6), At(3, 3)>>)

\* The same with a second notch from above, whose tip is level with the first.
TwiceNotched ==
    Loop(<<At(0, 0), At(6, 0), At(6, 6), At(5, 3), At(4, 6), At(0, 6), At(3, 3)>>)

Square2 == Loop(<<At(0, 0), At(2, 0), At(2, 2), At(0, 2)>>)

\* Boundaries with the parameter division of their surface and the triangles
\* of the constrained triangulation of the boundary and the inserted samples.
MeshCases ==
    { [polyline |-> Square2, udiv |-> <<0, Den, 2 * Den>>, vdiv |-> <<0, Den, 2 * Den>>,
       cdt |-> << <<0, 1, 4>>, <<1, 2, 4>>, <<2, 3, 4>>, <<3, 0, 4>> >>],
      [polyline |-> Square2, udiv |-> <<0, 2 * Den>>, vdiv |-> <<0, 2 * Den>>,
       cdt |-> << <<0, 1, 2>>, <<0, 2, 3>> >>],
      [polyline |-> Notched, udiv |-> <<0, 3 * Den, 6 * Den>>, vdiv |-> <<0, 3 * Den, 6 * Den>>,
       cdt |-> << <<0, 1, 4>>, <<1, 2, 4>>, <<2, 3, 4>>, <<3, 5, 4>>, <<5, 0, 4>> >>],
      [polyline |-> Notched, udiv |-> <<0, 6 * Den>>, vdiv |-> <<0, 6 * Den>>,
       cdt |-> << <<0, 1, 4>>, <<1, 2, 4>>, <<2, 3, 4>>, <<3, 4, 0>> >>],
      [polyline |-> TwiceNotched, udiv |-> <<0, 6 * Den>>, vdiv |-> <<0, 6 * Den>>,
       cdt |-> << <<0, 1, 6>>, <<1, 2, 3>>, <<1, 3, 6>>, <<6, 3, 4>>, <<6, 4, 5>>,
                  <<2, 4, 3>>, <<5, 6, 0>> >>] }

\* trimming_tessellation is called for a face.
TrimmingTessellation ==
    /\ mode = "mesh"
    /\ ~pm.called
    /\ \E case \in MeshCases, against \in BOOLEAN :
        LET r == trimming_tessellation(case.polyline, case.udiv, case.vdiv, case.cdt, against)
        IN  pm' = [called |-> TRUE, polyline |-> case.polyline, inserted |-> r.inserted,
                   vertices |-> r.vertices, triangles |-> r.triangles, mesh |-> r.mesh]
    /\ UNCHANGED <<mode, debug, sx, ts, pip, solid, pre, op, out, nextId, nops, last, cb, sw>>

Next ==
    \/ New
    \/ TryNew
    \/ NewUnchecked
    \/ DebugNew
    \/ Mapped
    \/ TryMapped
    \/ CutEdge
    \/ RemoveVertex
    \/ CubePush
    \/ CubeSolid
    \/ SweepStart
    \/ SweepLoop
    \/ SweepReturn
    \/ EdgeSweep
    \/ WireSweep
    \/ FaceSweep
    \/ ShellSweep
    \/ TessCall
    \/ TessFace
    \/ TessReturn
    \/ Include
    \/ TrimmingTessellation

Spec == Init /\ [][Next]_vars

(***************************************************************************)
(* Properties.                                                             *)
(***************************************************************************)
\* What a boundary shell of a solid has to be.
GoodShell(sh) ==
    /\ ~is_empty(sh)
    /\ is_connected(sh)
    /\ shell_condition(sh) = "Closed"
    /\ singular_vertices(sh) = {}

AllGood(b) == \A i \in 1..Len(b) : GoodShell(b[i])

\* The conditions a shell can fail, in the order of precedence of the errors.
Precedence == <<"EmptyShell", "NotConnected", "NotClosedShell", "NotManifold">>

Fails(sh, k) ==
    CASE k = 1 -> is_empty(sh)
      [] k = 2 -> ~is_connected(sh)
      [] k = 3 -> shell_condition(sh) # "Closed"
      [] k = 4 -> singular_vertices(sh) # {}

FirstErrorOf(sh) == Precedence[Least({k \in 1..4 : Fails(sh, k)})]

FirstBadShell(b) == b[Least({i \in 1..Len(b) : ~GoodShell(b[i])})]

\* C1: try_new returns Ok (with the boundaries it was given) exactly when every
\* shell is nonempty, connected, closed and without singular vertex; otherwise
\* it returns the error of the first failing shell of the list, EmptyShell
\* before NotConnected before NotClosedShell before NotManifold.
C1_TryNewResult ==
    op.name = "try_new" =>
        IF AllGood(op.arg) THEN out = Ok(op.arg)
        ELSE out = Err(FirstErrorOf(FirstBadShell(op.arg)))

\* try_new has rejected a list whose second shell fails two conditions at
\* once, after a first shell that passes.
C1_Witness ==
    /\ op.name = "try_new"
    /\ Len(op.arg) = 2
    /\ GoodShell(op.arg[1])
    /\ Fails(op.arg[2], 2) /\ Fails(op.arg[2], 3)
    /\ out.tag = "Err" /\ out.err = "NotConnected"

\* C2 as stated: every boundary shell of every solid the public operations
\* produce is nonempty, connected, closed and free of singular vertices.
C2_EverySolidValid == solid.some => AllGood(solid.b)

\* Whether the last call validated the solid it returned or left behind.
Checked ==
    \/ op.name \in {"new", "try_new"} /\ out.tag = "Ok"
    \/ /\ debug
       /\ op.name \in {"debug_new", "mapped", "try_mapped", "cut_edge",
                        "remove_vertex_by_concat_edges"}
       /\ out.tag \in {"Ok", "Some", "true", "false"}

\* C2 amended: a solid returned by new or try_new, and in a debug build a
\* solid returned by debug_new, mapped or try_mapped or left by a cut_edge or
\* remove_vertex_by_concat_edges that returned, has only nonempty, connected,
\* closed boundary shells without singular vertex.
C2_CheckedSolidValid == (solid.some /\ Checked) => AllGood(solid.b)

\* A debug build has cut an edge of a solid with two boundary shells and returned.
C2_Witness ==
    /\ debug
    /\ op.name = "cut_edge"
    /\ out.tag = "true"
    /\ Len(solid.b) = 2
    /\ solid # pre

\* C3: when try_new accepts the boundaries, new, new_unchecked and debug_new
\* return the solid with these boundaries in the same order; when it rejects
\* them, new panics, new_unchecked returns the solid all the same, and
\* debug_new panics in a debug build and returns the solid in a release build.
C3_ConstructorsAgree ==
    LET accepted == try_new(op.arg).tag = "Ok"
    IN  /\ op.name = "new" =>
               IF accepted THEN out = Ok(op.arg) ELSE out.tag = "Panic"
        /\ op.name = "new_unchecked" => out = Ok(op.arg)
        /\ op.name = "debug_new" =>
               IF accepted \/ ~debug THEN out = Ok(op.arg) ELSE out.tag = "Panic"
        /\ (op.name = "try_new" /\ accepted) => out = Ok(op.arg)

\* A release build's debug_new has returned a solid that try_new rejects.
C3_Witness ==
    /\ op.name = "debug_new"
    /\ ~debug
    /\ try_new(op.arg).tag = "Err"
    /\ out = Ok(op.arg)
    /\ solid.some

\* C4: in cube(), the shell of face0 and face5 is not connected; with face1
\* added it is connected and Oriented; with all six faces (8 vertices, 12
\* edges, every edge once in each direction, four edges a face) it is Closed
\* without singular vertex, and Solid::new returns the solid.
C4_Cube ==
    mode = "cube" =>
        /\ ~cb.panicked
        /\ cb.pc = 2 => (cb.shell = <<face0, face5>> /\ ~is_connected(cb.shell))
        /\ cb.pc = 3 =>
               /\ cb.shell = <<face0, face5, face1>>
               /\ is_connected(cb.shell)
               /\ shell_condition(cb.shell) = "Oriented"
        /\ cb.pc = 6 =>
               /\ Cardinality(ShellVertices(cb.shell)) = 8
               /\ Cardinality(ShellEdgeIds(cb.shell)) = 12
               /\ Len(cb.shell) = 6
               /\ \A i \in 1..6 : Len(cb.shell[i].bnd) = 1 /\ Len(cb.shell[i].bnd[1]) = 4
               /\ \A id \in ShellEdgeIds(cb.shell) :
                      Mult(cb.shell, id, TRUE) = 1 /\ Mult(cb.shell, id, FALSE) = 1
               /\ shell_condition(cb.shell) = "Closed"
               /\ singular_vertices(cb.shell) = {}
        /\ out.tag # "init" => (out = Ok(<<cb.shell>>) /\ cb.pc = 6)

\* cube() has returned its solid.
C4_Witness == mode = "cube" /\ cb.pc = 6 /\ out.tag = "Ok" /\ solid.b = <<cb.shell>>

\* Every edge occurrence of a solid, by position <<shell, face, wire, index>>.
SolidOcc(b) == UNION {{<<s>> \o p : p \in Occ(b[s])} : s \in 1..Len(b)}

SolidOccEdge(b, p) == b[p[1]][p[2]].bnd[p[3]][p[4]]

\* The occurrences of a and b correspond, with the same orientation, and two
\* occurrences share an edge, or a vertex, in b exactly when they do in a.
SameSharing(a, b) ==
    /\ SolidOcc(a) = SolidOcc(b)
    /\ \A p \in SolidOcc(a) : SolidOccEdge(a, p).o = SolidOccEdge(b, p).o
    /\ \A p, q \in SolidOcc(a) :
          LET ap == SolidOccEdge(a, p)
              aq == SolidOccEdge(a, q)
              bp == SolidOccEdge(b, p)
              bq == SolidOccEdge(b, q)
          IN  /\ (ap.id = aq.id) <=> (bp.id = bq.id)
              /\ (ap.f = aq.f) <=> (bp.f = bq.f)
              /\ (ap.f = aq.b) <=> (bp.f = bq.b)
              /\ (ap.b = aq.b) <=> (bp.b = bq.b)

\* C5: mapped gives two occurrences of a vertex or an edge, wherever they are
\* in the solid (also in different boundary shells), the same identity in the
\* output exactly when they had the same identity in the input, and no
\* identity of the output is one of the input.
C5_MappedKeepsSharing ==
    (op.name = "mapped" /\ out.tag = "Ok") =>
        /\ SameSharing(pre.b, out.b)
        /\ SolidEdgeIds(pre.b) \cap SolidEdgeIds(out.b) = {}
        /\ SolidVertices(pre.b) \cap SolidVertices(out.b) = {}

\* Whether a callback of the last try_mapped returns None on an entity of the input.
AnyNone ==
    \/ SolidVertices(pre.b) \cap op.failP # {}
    \/ SolidEdgeIds(pre.b) \cap op.failC # {}
    \/ SolidFaceIds(pre.b) \cap op.failS # {}

\* b has the shells of a in the same order, face by face and wire by wire.
SameShape(a, b) ==
    /\ Len(a) = Len(b)
    /\ \A i \in 1..Len(a) : Len(a[i]) = Len(b[i]) /\ Occ(a[i]) = Occ(b[i])

\* C6 as stated: try_mapped returns None when a callback returns None on some
\* point, curve or surface of the solid, and otherwise Some solid with as many
\* boundary shells, in the same order; the receiver is unchanged.
C6_TryMappedNoneOrSome ==
    op.name = "try_mapped" =>
        /\ IF AnyNone THEN out.tag = "None" /\ out.b = NoBnd
           ELSE out.tag = "Some" /\ SameShape(pre.b, out.b)
        /\ out.tag # "Some" => solid = pre

\* C6 amended: as C6, except that in a debug build the call panics instead of
\* returning Some when a boundary shell does not meet the conditions of
\* try_new.
C6_TryMappedNoneSomeOrPanic ==
    op.name = "try_mapped" =>
        /\ IF AnyNone THEN out.tag = "None" /\ out.b = NoBnd
           ELSE IF debug /\ ~AllGood(pre.b) THEN out.tag = "Panic"
           ELSE out.tag = "Some" /\ SameShape(pre.b, out.b)
        /\ out.tag # "Some" => solid = pre

\* A callback has returned None on a curve that only the second boundary
\* shell holds, and try_mapped has returned None.
C6_Witness ==
    /\ op.name = "try_mapped"
    /\ Len(pre.b) = 2
    /\ op.failC # {}
    /\ op.failC \cap ShellEdgeIds(pre.b[1]) = {}
    /\ op.failC \cap ShellEdgeIds(pre.b[2]) # {}
    /\ out.tag = "None"
    /\ solid = pre

\* C7: when cut_edge returns true, every occurrence of the edge in every wire
\* of every face of every boundary shell is replaced by the same two new edges
\* joined at the vertex, reversed where the occurrence was reversed, and no
\* wire holds the edge any more.
C7_CutReplacesEveryOccurrence ==
    (op.name = "cut_edge" /\ out.tag = "true") =>
        /\ op.e \notin SolidEdgeIds(solid.b)
        /\ \E n0, n1 \in SolidEdgeIds(solid.b) \ SolidEdgeIds(pre.b) :
              LET e == SolidOccEdge(pre.b,
                           CHOOSE p \in SolidOcc(pre.b) : SolidOccEdge(pre.b, p).id = op.e)
                  E0 == Edge(n0, e.f, op.v)
                  E1 == Edge(n1, op.v, e.b)
              IN  /\ Len(solid.b) = Len(pre.b)
                  /\ \A s \in 1..Len(pre.b) :
                        /\ Len(solid.b[s]) = Len(pre.b[s])
                        /\ \A i \in 1..Len(pre.b[s]) :
                              /\ Len(solid.b[s][i].bnd) = Len(pre.b[s][i].bnd)
                              /\ \A j \in 1..Len(pre.b[s][i].bnd) :
                                    solid.b[s][i].bnd[j]
                                        = CutWire(pre.b[s][i].bnd[j], op.e, E0, E1)

\* Whether the operation of the last call fails on shell i of the receiver.
ShellFails(i) ==
    IF op.name = "cut_edge"
    THEN i = op.failAt /\ op.e \in ShellEdgeIds(pre.b[i])
    ELSE \/ i = op.failAt
         \/ Cardinality(IncidentEdges(pre.b[i], op.v)) # 2
         \/ \E p \in Occ(pre.b[i]) :
                OccEdge(pre.b[i], p).f = op.v /\ OccEdge(pre.b[i], p).b = op.v

FailingShells == {i \in 1..Len(pre.b) : ShellFails(i)}

Mutating == op.name \in {"cut_edge", "remove_vertex_by_concat_edges"}

\* The shells before the first failing one are changed, the others are as before.
PartialKept ==
    LET k == Least(FailingShells)
    IN  /\ Len(solid.b) = Len(pre.b)
        /\ \A i \in 1..Len(pre.b) :
              IF i >= k THEN solid.b[i] = pre.b[i]
              ELSE IF op.name = "cut_edge"
                   THEN /\ op.e \notin ShellEdgeIds(solid.b[i])
                        /\ op.e \in ShellEdgeIds(pre.b[i])
                               => op.v \in ShellVertices(solid.b[i])
                   ELSE op.v \notin ShellVertices(solid.b[i])

\* C8 as stated: when the operation fails on a boundary shell, cut_edge and
\* remove_vertex_by_concat_edges return false, in every build and without
\* panicking, and the solid keeps the partial mutation.
C8_FailureReturnsFalse ==
    (Mutating /\ FailingShells # {}) => (out.tag = "false" /\ PartialKept)

\* C8 amended: when the operation fails on a boundary shell, the solid keeps
\* the partial mutation and the call returns false, except that in a debug
\* build it panics when a boundary shell of the solid, as it then is, does not
\* meet the conditions of try_new.
C8_FailureReturnsFalseOrPanics ==
    (Mutating /\ FailingShells # {}) =>
        /\ out.tag = IF debug /\ ~AllGood(solid.b) THEN "Panic" ELSE "false"
        /\ PartialKept

\* A debug build's cut_edge has cut the edge in the first boundary shell,
\* failed in the second and returned false.
C8_Witness ==
    /\ debug
    /\ op.name = "cut_edge"
    /\ FailingShells = {2}
    /\ op.e \in ShellEdgeIds(pre.b[1])
    /\ solid.b[1] # pre.b[1]
    /\ out.tag = "false"

\* C9: on a valid solid, cut_edge at a new vertex followed by
\* remove_vertex_by_concat_edges of that vertex both return true (the curve
\* operations succeeding) and leave a graph with as many vertices, edges and
\* faces as before and the same sharing of edges between the faces.
C9_CutThenConcatRoundTrip ==
    ( /\ op.name = "remove_vertex_by_concat_edges"
      /\ last.op.name = "cut_edge"
      /\ op.v = last.op.v
      /\ op.failAt = 0 /\ last.op.failAt = 0
      /\ AllGood(last.pre.b) ) =>
        /\ last.out.tag = "true"
        /\ out.tag = "true"
        /\ Cardinality(SolidVertices(solid.b)) = Cardinality(SolidVertices(last.pre.b))
        /\ Cardinality(SolidEdgeIds(solid.b)) = Cardinality(SolidEdgeIds(last.pre.b))
        /\ Cardinality(SolidFaceIds(solid.b)) = Cardinality(SolidFaceIds(last.pre.b))
        /\ SameSharing(last.pre.b, solid.b)

\* The identities of the vertices of a wire, from the front of its first edge on.
WireVertexIds(w) == {front(w[k]).id : k \in 1..Len(w)}

\* C10: Vertex::closed_sweep with division d >= 1 returns a wire of d edges
\* that starts and ends at the swept vertex, each edge starting where the one
\* before ends; the d-1 vertices between are fresh and pairwise distinct, the
\* k-th one carrying the point mapped k times; point_mapping is applied d-1
\* times and the last edge ends at the swept vertex itself.
C10_VertexClosedSweep ==
    (mode = "sweep" /\ sw.pc = "done" /\ sw.division >= 1) =>
        LET d == sw.division
            w == sw.wire
        IN  /\ Len(w) = d
            /\ front(w[1]) = sw.self
            /\ back(w[d]) = sw.self
            /\ \A k \in 1..(d - 1) : back(w[k]) = front(w[k + 1])
            /\ \A k \in 2..d : front(w[k]).id # sw.self.id /\ front(w[k]).pt = k - 1
            /\ Cardinality(WireVertexIds(w)) = d
            /\ Cardinality({w[k].id : k \in 1..d}) = d
            /\ \A k \in 1..d : w[k].c = <<front(w[k]).pt, back(w[k]).pt>>
            /\ sw.calls = d - 1

\* A closed sweep with three divisions has returned.
C10_Witness == mode = "sweep" /\ sw.pc = "done" /\ sw.division = 3 /\ Len(sw.wire) = 3

\* The first identity the last closed sweep allocated.
SweepBase == nextId - sx.res.used

\* The boundary wire of face k of a swept shell.
Quad(shell, k) == shell[k].bnd[1]

\* shell is made of steps rows of quadrilaterals over the wire w: the first
\* row stands on the edges of w, every other row on the tops of the row before,
\* and the tops of the last row are the edges of w again.
SweptOver(shell, w, steps) ==
    LET n == Len(w)
    IN  /\ Len(shell) = steps * n
        /\ \A k \in 1..Len(shell) : Len(shell[k].bnd) = 1 /\ Len(Quad(shell, k)) = 4
        /\ Cardinality({shell[k].id : k \in 1..Len(shell)}) = Len(shell)
        /\ \A j \in 1..n :
              /\ Quad(shell, j)[1] = w[j]
              /\ \A r \in 1..(steps - 1) :
                    inverse(Quad(shell, (r - 1) * n + j)[3]) = Quad(shell, r * n + j)[1]
              /\ inverse(Quad(shell, (steps - 1) * n + j)[3]) = w[j]

C12_SweptFaceCount ==
    /\ (sx.kind = "Edge" /\ sx.division >= 1) =>
          SweptOver(sx.res.shell, <<sx.self>>, sx.division)
    /\ (sx.kind = "Wire" /\ sx.division >= 1) =>
          SweptOver(sx.res.shell, sx.self, sx.division)
    /\ (sx.kind = "Wire" /\ sx.division = 1 /\ sx.self = SquareWire) =>
          /\ Len(sx.res.shell) = 4
          /\ \A k \in 1..4 : Len(Quad(sx.res.shell, k)) = 4

\* The square wire has been swept in two steps.
C12_Witness ==
    /\ sx.kind = "Wire" /\ sx.division = 2
    /\ sx.self = SquareWire
    /\ Len(sx.res.shell) = 8

FirstFace(sh, c) == Least({i \in 1..Len(sh) : sh[i] = c[1]})

\* C14: Shell::closed_sweep returns one result for each connected component
\* of the shell, in the order in which the first faces of the components
\* appear; the result of a component is try_new of the closed sweeps of the
\* free boundary wires of this component, one boundary shell a wire, in the
\* order of the wires.
C14_ShellSweepPerComponent ==
    (sx.kind = "Shell" /\ sx.division >= 1) =>
        LET comps == connected_components(sx.self)
        IN  /\ Len(sx.res.rs) = Len(comps)
            /\ \A k \in 1..(Len(comps) - 1) :
                  FirstFace(sx.self, comps[k]) < FirstFace(sx.self, comps[k + 1])
            /\ \A k \in 1..Len(comps) :
                  LET ws == extract_boundaries(comps[k])
                      r == sx.res.rs[k]
                  IN  /\ Len(r.arg) = Len(ws)
                      /\ \A j \in 1..Len(ws) : SweptOver(r.arg[j], ws[j], sx.division)
                      /\ r.tag = "Ok" => r.b = r.arg
                      /\ r.tag = try_new(r.arg).tag

\* A shell whose first component has no free boundary and whose second one
\* has one has been swept.
C14_Witness ==
    /\ sx.kind = "Shell" /\ sx.division = 2
    /\ Len(sx.res.rs) = 2
    /\ Len(sx.res.rs[1].arg) = 0 /\ Len(sx.res.rs[2].arg) = 1
    /\ Len(sx.self) = 3

C16_TessellationKeepsStructure ==
    (mode = "tess" /\ ts.res = "Some") =>
        /\ ts.shell \in TessShells
        /\ Len(ts.shell0) = Len(ts.shell)
        /\ \A i \in 1..Len(ts.shell) :
            /\ ts.shell0[i].o = ts.shell[i].o
            /\ ts.shell0[i].mesh.surface = ts.shell[i].id
            /\ Len(ts.shell0[i].bnd) = Len(ts.shell[i].bnd)
            /\ \A j \in 1..Len(ts.shell[i].bnd) :
                Len(ts.shell0[i].bnd[j]) = Len(ts.shell[i].bnd[j])

\* Some(out) was returned for a shell with a face whose bit is false.
C16_Witness ==
    /\ mode = "tess"
    /\ ts.res = "Some"
    /\ \E i \in 1..Len(ts.shell) : ~ts.shell[i].o

\* C17: every curve of the input is divided once, and never more than once
\* while the faces are built; every output occurrence of an edge has the
\* vertices vmap gives to the vertices of the input occurrence, and vmap
\* gives different vertices to different vertices; two output occurrences
\* have the same edge identity exactly when the input occurrences have; and
\* two occurrences of one output edge carry the same polyline, the division
\* of the input curve, read in the same order when their bits agree and in
\* reverse order when they differ.
C17_Watertight ==
    (mode = "tess" /\ ts.pc \in {"faces", "done"}) =>
        /\ \A id \in ShellEdgeIds(ts.shell) :
            /\ ts.st.divs[id] <= 1
            /\ ts.res = "Some" => ts.st.divs[id] = 1
        /\ \A v, w \in DOMAIN ts.vmap : ts.vmap[v] = ts.vmap[w] => v = w
        /\ \A p \in Occ(ts.shell0) :
            /\ OccEdge(ts.shell0, p).f = ts.vmap[OccEdge(ts.shell, p).f]
            /\ OccEdge(ts.shell0, p).b = ts.vmap[OccEdge(ts.shell, p).b]
            /\ OccEdge(ts.shell0, p).poly = Poly(OccEdge(ts.shell, p))
        /\ \A p, q \in Occ(ts.shell0) :
            /\ (OccEdge(ts.shell0, p).id = OccEdge(ts.shell0, q).id)
                   <=> (OccEdge(ts.shell, p).id = OccEdge(ts.shell, q).id)
            /\ OccEdge(ts.shell0, p).id = OccEdge(ts.shell0, q).id =>
                /\ OccEdge(ts.shell0, p).poly = OccEdge(ts.shell0, q).poly
                /\ oriented_curve(OccEdge(ts.shell0, p)) =
                       IF OccEdge(ts.shell0, p).o = OccEdge(ts.shell0, q).o
                       THEN oriented_curve(OccEdge(ts.shell0, q))
                       ELSE Reverse(oriented_curve(OccEdge(ts.shell0, q)))

\* Some(out) was returned and two faces of out run one edge in opposite
\* directions.
C17_Witness ==
    /\ mode = "tess"
    /\ ts.res = "Some"
    /\ \E p, q \in Occ(ts.shell0) :
        /\ p[1] # q[1]
        /\ OccEdge(ts.shell0, p).id = OccEdge(ts.shell0, q).id
        /\ OccEdge(ts.shell0, p).o # OccEdge(ts.shell0, q).o

\* C18: every edge of every wire of every output face has the orientation
\* bit of the edge at the same place of the input, whether the edge was seen
\* for the first time or found in the memo, loop edges included.
C18_OccurrenceOrientationKept ==
    mode = "tess" =>
        \A p \in Occ(ts.shell0) :
            OccEdge(ts.shell0, p).o = OccEdge(ts.shell, p).o

\* Whether the search of some boundary point of some face fails: the point
\* is not found without hint, and it is the first point of its edge or it is
\* not found with the hint either.
SearchFails(sh, noHint, hinted) ==
    \E p \in Occ(sh) :
        LET e == OccEdge(sh, p)
            c == IF e.o THEN Poly(e) ELSE Reverse(Poly(e))
        IN  \E k \in 1..(Len(c) - 1) :
                /\ <<sh[p[1]].id, c[k]>> \in noHint
                /\ k = 1 \/ <<sh[p[1]].id, c[k]>> \in hinted

\* C19: tessellation ends with None or with Some; with None exactly when the
\* search of some boundary point of some face fails with the hint and
\* without; with Some the shell has a face with a polygon mesh for every
\* face of the input.
C19_NoneIffSearchFails ==
    (mode = "tess" /\ ts.pc = "done") =>
        /\ ts.res \in {"None", "Some"}
        /\ ts.res = "None" <=> SearchFails(ts.shell, ts.noHint, ts.hinted)
        /\ ts.res = "Some" =>
            /\ Len(ts.shell0) = Len(ts.shell)
            /\ \A i \in 1..Len(ts.shell) :
                ts.shell0[i].mesh.surface = ts.shell[i].id

\* None was returned after a face had been built, for a point that is not
\* the first of its edge.
C19_Witness ==
    /\ mode = "tess"
    /\ ts.res = "None"
    /\ Len(ts.shell0) >= 1
    /\ ts.hinted # {}
    /\ \A x \in ts.noHint : x[2][1] = "c"


(***************************************************************************)
(* Point in polygon.                                                       *)
(***************************************************************************)
\* The end of edge k of a polyline relative to c: n = 1 the first, 2 the second.
Rel(self, k, n, c) ==
    <<self.positions[self.indices[k][n] + 1][1] - c[1],
      self.positions[self.indices[k][n] + 1][2] - c[2]>>

\* x of edge k.
CrossX(self, k, c) ==
    (Rel(self, k, 1, c)[1] * Rel(self, k, 2, c)[2]
        - Rel(self, k, 1, c)[2] * Rel(self, k, 2, c)[1])
    * (Rel(self, k, 2, c)[2] - Rel(self, k, 1, c)[2])

\* The stated rule.
IncludeRule(self, c, tol) ==
    LET K == 1..Len(self.indices)
        n == tol[1]
        d == tol[2]
        onBoundary == \E k \in K :
            /\ d * Abs(CrossX(self, k, c)) < n * Den * Den * Den
            /\ Rel(self, k, 1, c)[2] * Rel(self, k, 2, c)[2] < 0
        up == {k \in K : /\ d * CrossX(self, k, c) > n * Den * Den * Den
                          /\ d * Rel(self, k, 1, c)[2] <= -(n * Den)
                          /\ d * Rel(self, k, 2, c)[2] > n * Den}
        down == {k \in K : /\ d * CrossX(self, k, c) > n * Den * Den * Den
                            /\ d * Rel(self, k, 1, c)[2] >= n * Den
                            /\ d * Rel(self, k, 2, c)[2] < -(n * Den)}
    IN  ~onBoundary /\ Cardinality(up) - Cardinality(down) > 0

\* The edges of a polyline in every order.
Reorderings(self) ==
    {[self EXCEPT !.indices = [k \in 1..Len(self.indices) |-> self.indices[f[k]]]] :
        f \in {g \in [1..Len(self.indices) -> 1..Len(self.indices)] :
                  \A i, j \in 1..Len(self.indices) : g[i] = g[j] => i = j}}

\* C20: include(c, tol) is false when some edge has |x| < tol and
\* a_y * b_y < 0, and otherwise true exactly when the edges with x > tol,
\* a_y <= -tol, b_y > tol are more than those with x > tol, a_y >= tol,
\* b_y < -tol; and the result is the same for every order of the edges.
C20_IncludeRule ==
    (mode = "pip" /\ pip.called) =>
        /\ pip.res = IncludeRule(pip.self, pip.c, pip.tol)
        /\ \A other \in Reorderings(pip.self) :
            include(other, pip.c, pip.tol) = pip.res

\* A point was found inside a polyline of several edges with a positive
\* tolerance.
C20_Witness ==
    /\ mode = "pip"
    /\ pip.called
    /\ pip.res
    /\ pip.tol[1] > 0
    /\ Len(pip.self.indices) > 1


\* C21: for the unit square (0,0), (1,0), (1,1), (0,1) and a tiny positive
\* tolerance, include is true for (1/2, 1/2), false for (3/2, 1/2) and false
\* for (1/2, 0), a point of the boundary.
C21_UnitSquare ==
    (mode = "pip" /\ pip.called /\ pip.self = UnitSquare
        /\ pip.tol = <<1, 1000000>> /\ pip.c \in UnitQueries) =>
        (pip.res <=> pip.c = <<1, 1>>)

\* The unit square was asked about its centre with the tiny tolerance.
C21_Witness ==
    /\ mode = "pip"
    /\ pip.called
    /\ pip.self = UnitSquare
    /\ pip.tol = <<1, 1000000>>
    /\ pip.c = <<1, 1>>
    /\ pip.res


\* The polylines of the calls that are simple and closed.
ClosedLoops ==
    {Loop(<< <<-1, -MaxCoord>>, <<1, -MaxCoord>>, <<1, MaxCoord>>, <<-1, MaxCoord>> >>),
     Loop(<< <<-1, MaxCoord>>, <<1, MaxCoord>>, <<1, -MaxCoord>>, <<-1, -MaxCoord>> >>),
     Loop(<< <<-1, -1>>, <<1, -1>>, <<0, MaxCoord>> >>),
     UnitSquare}

\* sqrt(m2) / s > tol, for a natural number m2 and a positive number s.
RootGt(m2, s, tol) ==
    IF m2 = 0 THEN FALSE
    ELSE IF tol[2] > tol[1] * s THEN TRUE
    ELSE tol[2] * tol[2] * m2 > tol[1] * tol[1] * s * s

\* The distance of c from the segment from p to q is more than tol.
FarFrom(p, q, c, tol) ==
    LET l2 == (q[1] - p[1]) * (q[1] - p[1]) + (q[2] - p[2]) * (q[2] - p[2])
        t == (c[1] - p[1]) * (q[1] - p[1]) + (c[2] - p[2]) * (q[2] - p[2])
        cross == (q[1] - p[1]) * (c[2] - p[2]) - (q[2] - p[2]) * (c[1] - p[1])
    IN  IF t <= 0
        THEN RootGt((c[1] - p[1]) * (c[1] - p[1]) + (c[2] - p[2]) * (c[2] - p[2]), Den, tol)
        ELSE IF t >= l2
        THEN RootGt((c[1] - q[1]) * (c[1] - q[1]) + (c[2] - q[2]) * (c[2] - q[2]), Den, tol)
        ELSE IF tol[2] * Abs(cross) > tol[1] * Den * l2 THEN TRUE
        ELSE tol[2] * tol[2] * cross * cross > tol[1] * tol[1] * Den * Den * l2

Far(self, c, tol) ==
    \A k \in 1..Len(self.indices) :
        FarFrom(self.positions[self.indices[k][1] + 1],
                self.positions[self.indices[k][2] + 1], c, tol)

\* The mirror image of a point: about the vertical axis u = 0 ("v") or the
\* horizontal axis v = 0 ("h").
MirrorPoint(pt, axis) == IF axis = "v" THEN <<-pt[1], pt[2]>> ELSE <<pt[1], -pt[2]>>

\* The mirror image of a polyline, its vertices in the same order.
Mirror(self, axis) ==
    [self EXCEPT !.positions =
        [k \in 1..Len(self.positions) |-> MirrorPoint(self.positions[k], axis)]]

\* C22: for a simple closed polyline and a point farther than tol from every
\* edge, include gives the same for the polyline with the point and for
\* their mirror images about a vertical or a horizontal axis.
C22_ReflectionStable ==
    (mode = "pip" /\ pip.called /\ pip.self \in ClosedLoops
        /\ Far(pip.self, pip.c, pip.tol)) =>
        \A axis \in {"v", "h"} :
            include(Mirror(pip.self, axis), MirrorPoint(pip.c, axis), pip.tol) = pip.res

\* Whether c lies on the segment from p to q.
OnSegment(p, q, c) ==
    /\ (p[1] - c[1]) * (q[2] - c[2]) - (p[2] - c[2]) * (q[1] - c[1]) = 0
    /\ (p[1] - c[1]) * (q[1] - c[1]) + (p[2] - c[2]) * (q[2] - c[2]) <= 0

OnBoundary(self, c) ==
    \E i \in DOMAIN self.indices :
        OnSegment(self.positions[self.indices[i][1] + 1],
                  self.positions[self.indices[i][2] + 1], c)

RECURSIVE Winding(_, _, _)
\* How many times the first k edges of self wind around c, which is on none of them.
Winding(self, k, c) ==
    IF k = 0 THEN 0
    ELSE LET a == self.positions[self.indices[k][1] + 1]
             b == self.positions[self.indices[k][2] + 1]
             left == (a[1] - c[1]) * (b[2] - c[2]) - (a[2] - c[2]) * (b[1] - c[1])
         IN  Winding(self, k - 1, c)
             + (IF a[2] <= c[2] /\ b[2] > c[2] /\ left > 0 THEN 1
                ELSE IF a[2] > c[2] /\ b[2] <= c[2] /\ left < 0 THEN -1
                ELSE 0)

StrictlyInside(self, c) ==
    ~OnBoundary(self, c) /\ Winding(self, Len(self.indices), c) # 0

Outside(self, c) ==
    ~OnBoundary(self, c) /\ Winding(self, Len(self.indices), c) = 0

\* Whether the mesh has a face on the vertices of tri.
Emitted(mesh, tri) ==
    \E n \in DOMAIN mesh.tri_faces :
        {mesh.tri_faces[n][k].pos : k \in 1..3} = {tri[k] : k \in 1..3}

\* C23: a triangle of the triangulation is in the mesh exactly when include
\* accepts its centroid, no triangle of the mesh has its centroid outside the
\* boundary, and every sample inserted is strictly inside the boundary.
C23_TrimmedByCentroid ==
    pm.called =>
        /\ \A n \in DOMAIN pm.triangles :
               Emitted(pm.mesh, pm.triangles[n])
                   <=> CentroidIncluded(pm.polyline, pm.vertices, pm.triangles[n])
        /\ \A n \in DOMAIN pm.triangles :
               Emitted(pm.mesh, pm.triangles[n])
                   => ~Outside(Scaled(pm.polyline, 3), Centroid3(pm.vertices, pm.triangles[n]))
        /\ \A n \in DOMAIN pm.inserted : StrictlyInside(pm.polyline, pm.inserted[n])

\* C24: the mesh of a face has one position, one parameter pair and one normal
\* per vertex of the triangulation, entry i of each being of vertex i, it has
\* triangles only, and every vertex of a face has the same index for its
\* position, parameter pair and normal, which is an index of these lists.
C24_MeshIndexed ==
    pm.called =>
        /\ Len(pm.mesh.positions) = Len(pm.vertices)
        /\ Len(pm.mesh.uv_coords) = Len(pm.vertices)
        /\ Len(pm.mesh.normals) = Len(pm.vertices)
        /\ \A i \in DOMAIN pm.vertices :
               /\ pm.mesh.uv_coords[i] = pm.vertices[i]
               /\ pm.mesh.positions[i] = <<"subs", pm.vertices[i]>>
               /\ pm.mesh.normals[i] = <<"normal", pm.vertices[i]>>
        /\ pm.mesh.quad_faces = <<>>
        /\ \A n \in DOMAIN pm.mesh.tri_faces :
               /\ Len(pm.mesh.tri_faces[n]) = 3
               /\ \A k \in 1..3 :
                      /\ pm.mesh.tri_faces[n][k].pos \in 0..(Len(pm.vertices) - 1)
                      /\ pm.mesh.tri_faces[n][k].uv = pm.mesh.tri_faces[n][k].pos
                      /\ pm.mesh.tri_faces[n][k].nor = pm.mesh.tri_faces[n][k].pos

\* A mesh of four triangles around an inserted sample has been made.
C24_Witness ==
    /\ pm.called
    /\ Len(pm.inserted) = 1
    /\ Len(pm.vertices) = 5
    /\ Len(pm.mesh.tri_faces) = 4
    /\ \E n \in 1..4 : pm.mesh.tri_faces[n][1].pos = 4 \/ pm.mesh.tri_faces[n][2].pos = 4
                       \/ pm.mesh.tri_faces[n][3].pos = 4

\* The index pairs a call of add_wire appended.
Appended(call) ==
    SubSeq(call.polyline.indices, Len(call.self.indices) + 1, Len(call.polyline.indices))

\* The number of points a call of add_wire pushed.
Pushed(call) == Len(call.polyline.positions) - Len(call.self.positions)

\* The pairs appended by the call are one closed cycle over the points it pushed.
CycleOverPushed(call) ==
    /\ Len(Appended(call)) = Pushed(call)
    /\ \A i \in 1..Len(Appended(call)) :
           /\ Appended(call)[i] = <<Len(call.self.positions) + (i - 1),
                                    Len(call.self.positions) + (i % Pushed(call))>>
           /\ \A k \in 1..2 :
                  /\ Appended(call)[i][k] >= Len(call.self.positions)
                  /\ Appended(call)[i][k] < Len(call.polyline.positions)

\* C25 (as stated): after every call of add_wire, whatever it returns, it has
\* appended as many index pairs as it pushed points, every pair refers to
\* positions of the buffer, and the pairs are one closed cycle over the
\* points of this wire alone.
C25_PairsCycleOverPushedPoints ==
    \A n \in DOMAIN ts.calls : CycleOverPushed(ts.calls[n])

RECURSIVE Counted(_, _, _)
\* The points, less the last of each, of the polylines of the first k edges of wire.
Counted(wire, k, sum) ==
    IF k = 0 THEN sum ELSE Counted(wire, k - 1, sum + Len(oriented_curve(wire[k])) - 1)

\* C25 (amended): a call of add_wire that returns true has appended one
\* closed cycle of index pairs over the points it pushed; a call that returns
\* false has appended one pair per point of the edges it reached, the point
\* that failed and those after it in its edge included, which is more than it
\* pushed, and its last pair refers to a position the buffer does not have.
C25_PairsCycleWhenTrue ==
    \A n \in DOMAIN ts.calls :
        LET call == ts.calls[n]
        IN  /\ call.res => CycleOverPushed(call)
            /\ ~call.res =>
                /\ Len(Appended(call)) = Counted(call.wire, Len(call.log), 0)
                /\ Len(Appended(call)) > Pushed(call)
                /\ Appended(call)[Len(Appended(call))][1] >= Len(call.polyline.positions)
                /\ \A i \in 1..Len(Appended(call)) :
                       Appended(call)[i] = <<Len(call.self.positions) + (i - 1),
                                             Len(call.self.positions)
                                                 + (i % Len(Appended(call)))>>

\* The wire of a hole was added after the outer wire of its face, and the
\* search of one of its points failed after another had been pushed.
C25_Witness ==
    \E n, m \in DOMAIN ts.calls :
        /\ ts.calls[n].res
        /\ Pushed(ts.calls[n]) >= 2
        /\ ~ts.calls[m].res
        /\ Len(ts.calls[m].self.positions) > 0
        /\ Pushed(ts.calls[m]) > 0

RECURSIVE FlatLog(_)
\* The searches of a call of add_wire one after the other, edge after edge.
FlatLog(log) ==
    IF log = <<>> THEN <<>>
    ELSE FlatLog(SubSeq(log, 1, Len(log) - 1)) \o log[Len(log)]

\* Whether the search of the point of a log entry found a parameter.
Found(call, entry) ==
    \/ search_parameter(call.surface, entry.pt, entry.hint, ts.noHint, ts.hinted)
    \/ search_parameter(call.surface, entry.pt, <<"None">>, ts.noHint, ts.hinted)

\* What a call of add_wire searched, whatever its hints were: of every edge
\* the points of its oriented polyline but the last, in order; the search
\* without hint only after the search with the hint found nothing; the points
\* found pushed; the call stopped at the first point not found by either
\* search, and false returned exactly then.
SearchedInOrder(call) ==
    LET flat == FlatLog(call.log)
    IN  /\ Len(call.log) <= Len(call.wire)
        /\ \A j \in DOMAIN call.log :
               /\ Len(call.log[j]) <= Len(oriented_curve(call.wire[j])) - 1
               /\ \A n \in DOMAIN call.log[j] :
                      call.log[j][n].pt = oriented_curve(call.wire[j])[n]
               /\ j < Len(call.log) =>
                      Len(call.log[j]) = Len(oriented_curve(call.wire[j])) - 1
        /\ \A n \in DOMAIN flat :
               /\ flat[n].again
                      <=> ~search_parameter(call.surface, flat[n].pt, flat[n].hint,
                                            ts.noHint, ts.hinted)
               /\ n < Len(flat) => Found(call, flat[n])
        /\ call.res <=>
               /\ Len(call.log) = Len(call.wire)
               /\ \A j \in DOMAIN call.log :
                      Len(call.log[j]) = Len(oriented_curve(call.wire[j])) - 1
               /\ \A n \in DOMAIN flat : Found(call, flat[n])
        /\ ~call.res => flat # <<>> /\ ~Found(call, flat[Len(flat)])
        /\ Pushed(call) = Cardinality({n \in DOMAIN flat : Found(call, flat[n])})
        /\ \A n \in 1..Pushed(call) :
               call.polyline.positions[Len(call.self.positions) + n]
                   = <<"uv", call.surface, flat[n].pt>>

\* C26 (as stated): add_wire searches of every oriented edge the points but
\* the last, in order, each first with the parameter found for the point
\* searched before it in the wire as hint and without hint only when that
\* search finds nothing; the wire fails only at a point neither search finds,
\* and no point is searched after it.
C26_HintFromPrecedingPointOfWire ==
    \A c \in DOMAIN ts.calls :
        /\ SearchedInOrder(ts.calls[c])
        /\ \A n \in DOMAIN FlatLog(ts.calls[c].log) :
               FlatLog(ts.calls[c].log)[n].hint =
                   IF n = 1 THEN <<"None">>
                   ELSE <<"uv", ts.calls[c].surface, FlatLog(ts.calls[c].log)[n - 1].pt>>

\* C26 (amended): the hint of a point is the parameter found for the point
\* before it in the same edge; the first point of every edge is searched
\* without hint.
C26_HintFromPrecedingPointOfEdge ==
    \A c \in DOMAIN ts.calls :
        /\ SearchedInOrder(ts.calls[c])
        /\ \A j \in DOMAIN ts.calls[c].log :
               \A n \in DOMAIN ts.calls[c].log[j] :
                   ts.calls[c].log[j][n].hint =
                       IF n = 1 THEN <<"None">>
                       ELSE <<"uv", ts.calls[c].surface, ts.calls[c].log[j][n - 1].pt>>

\* A wire failed at the first point of its second or a later edge, after a
\* point had been found without hint that the search with hint had not found.
C26_Witness ==
    \E c \in DOMAIN ts.calls :
        /\ ~ts.calls[c].res
        /\ Len(ts.calls[c].log) >= 2
        /\ Len(ts.calls[c].log[Len(ts.calls[c].log)]) = 1
        /\ \E n \in DOMAIN ts.calls[c].log[1] :
               /\ ts.calls[c].log[1][n].hint # <<"None">>
               /\ ts.calls[c].log[1][n].again

\* Whether every boundary wire of every face of sh is closed.
ClosedWires(sh) ==
    \A i \in DOMAIN sh : \A j \in DOMAIN sh[i].bnd :
        \A k \in DOMAIN sh[i].bnd[j] :
            back(sh[i].bnd[j][k]) = front(sh[i].bnd[j][(k % Len(sh[i].bnd[j])) + 1])

\* C27: for a shell whose faces all have closed boundary wires, the vertex
\* pass inserts exactly the vertices the vertex iterator yields, the
\* absolute front and the absolute back of every edge are among them, and
\* no lookup in the vertex map fails in the edge pass.
C27_VertexLookupsSucceed ==
    (mode = "tess" /\ ts.pc # "idle" /\ ClosedWires(ts.shell)) =>
        /\ DOMAIN ts.vmap = TessVertices(ts.shell)
        /\ \A p \in Occ(ts.shell) :
               /\ OccEdge(ts.shell, p).f \in DOMAIN ts.vmap
               /\ OccEdge(ts.shell, p).b \in DOMAIN ts.vmap
        /\ ~ts.st.panic
        /\ ts.res # "Panic"

\* A shell with an inverted face, whose vertex iterator yields the absolute
\* backs of its edges, has been tessellated.
C27_Witness ==
    /\ mode = "tess"
    /\ ts.res = "Some"
    /\ ClosedWires(ts.shell)
    /\ \E i \in DOMAIN ts.shell : ~ts.shell[i].o
    /\ ts.st.edge_map # <<>>

\* C28: closed_sweep with division 0 returns what it returns with division 1:
\* for a vertex, an edge and a wire the entity connected once to itself, not
\* an empty wire or shell, and no mapping callback is called.
C28_DivisionZeroAsOne ==
    /\ (mode = "sweep" /\ sw.pc = "done" /\ sw.division = 0) =>
          /\ sw.calls = 0
          /\ sw.wire = SweepLast(<<>>, sw.self, sw.self, nextId - 1)
          /\ Len(sw.wire) = 1
          /\ front(sw.wire[1]) = sw.self /\ back(sw.wire[1]) = sw.self
    /\ (sx.kind = "Edge" /\ sx.division = 0) =>
          /\ sx.res = Edge_closed_sweep(sx.self, 1, SweepBase)
          /\ sx.res.calls = 0
          /\ sx.res.shell = <<connect_edges(sx.self, sx.self, SweepBase)>>
    /\ (sx.kind = "Wire" /\ sx.division = 0) =>
          /\ sx.res = Wire_closed_sweep(sx.self, 1, SweepBase)
          /\ sx.res.calls = 0
          /\ sx.res.shell = connect_wires(sx.self, sx.self, SweepBase)
          /\ Len(sx.res.shell) = Len(sx.self)

\* A wire of more than one edge has been swept with division 0.
C28_Witness ==
    /\ sx.kind = "Wire" /\ sx.division = 0
    /\ Len(sx.self) >= 2
    /\ Len(sx.res.shell) >= 2

\* C29: try_new of the empty list of boundaries is Ok, and the closed sweep
\* of a shell yields, for a component without free boundary wire, the Ok
\* solid without boundary shells.
C29_NoBoundaryIsOk ==
    /\ (op.name = "try_new" /\ op.arg = <<>>) => (out.tag = "Ok" /\ out.b = <<>>)
    /\ sx.kind = "Shell" =>
          \A k \in 1..Len(connected_components(sx.self)) :
              extract_boundaries(connected_components(sx.self)[k]) = <<>> =>
                  /\ sx.res.rs[k].arg = <<>>
                  /\ sx.res.rs[k].tag = "Ok"
                  /\ sx.res.rs[k].b = <<>>

\* A shell with a closed component has been swept.
C29_Witness ==
    /\ sx.kind = "Shell"
    /\ sx.self # <<>>
    /\ \E k \in 1..Len(connected_components(sx.self)) :
           /\ extract_boundaries(connected_components(sx.self)[k]) = <<>>
           /\ sx.res.rs[k].tag = "Ok"

====
